---- MODULE Spec2Model ----
(***************************************************************************)
(* Verification model of dockpeek-security: the background scheduler's     *)
(* cross-process election, the file-backed TTL cache, the vulnerability    *)
(* scan dispatcher, the container updater, the inventory collection pass,  *)
(* the scan-history store, the API key store and the version comparator.   *)
(*                                                                         *)
(* Every subsystem has its own variables, initial predicate and actions;   *)
(* a specification runs one subsystem and leaves the others idle.          *)
(***************************************************************************)
EXTENDS Integers, Sequences, FiniteSets, TLC

(***************************************************************************)
(* Bounds of the model.                                                    *)
(***************************************************************************)
\* number of Gunicorn worker processes that import the application
NProcs == 3

Procs == 1..NProcs
NoProc == 0

\* number of FileBasedCache objects (one per worker process) on one cache file
NCacheProcs == 2
\* last instant of the wall clock
MaxTime == 2
\* number of cache operations started in one behaviour
MaxCacheOps == 4

CacheProcs == 1..NCacheProcs

\* number of threads of one process that call queue_scan concurrently
NCallers == 2
\* largest number of items waiting in the scan queue
MaxQueue == 2

Callers == 1..NCallers

\* number of scan_image calls in one behaviour
MaxScans == 3

\* number of threads and processes that call update() concurrently
NUpdaters == 2
\* number of update() calls in one behaviour
MaxUpdates == 3

Updaters == 1..NUpdaters

\* number of container hosts configured in the environment
NHosts == 3
\* number of containers each engine enumerates
NConts == 2

Hosts == 1..NHosts

\* number of threads that call record_fingerprint concurrently
NRecorders == 2
\* number of record_fingerprint calls in one behaviour
MaxRecords == 3
\* largest number of rows of the scan_results table
MaxRows == 3

Recorders == 1..NRecorders

\* number of threads that call validate_key concurrently
NClients == 2
\* number of create_key calls in one behaviour
MaxKeys == 2

Clients == 1..NClients

\* largest number of dot-separated numbers at the start of a tag
MaxParts == 3
\* number of tags in the list a registry returns
MaxTags == 2

\* number of worker processes that call check_for_newer_version
NCheckers == 2
\* number of check_for_newer_version calls in one behaviour
MaxChecks == 3

Checkers == 1..NCheckers


\* number of concurrent /check-updates requests served by one worker
NRequests == 2

Requests == 1..NRequests


\* number of entries of "Results" in a Trivy response, and findings per entry
MaxResults == 2
MaxFindings == 2


\* number of processes that append to the auto-updater journal
NAppenders == 2
\* number of _append_history calls in one behaviour
MaxAppends == 4
\* the most records the journal keeps (500 in the code, scaled down)
HistoryLimit == 2

Appenders == 1..NAppenders


\* number of containers that share the network of the update target
NDependents == 2

Dependents == 1..NDependents


\* largest number of snapshots handed to queue_auto_scan
MaxSnapshots == 3


\* largest number of explicit leading characters of an image name
MaxNameLen == 3

\* len(image_name) > 256
MaxImageNameLength == 256


\* largest number of containers in the inventory of the auto-updater
MaxAutoContainers == 2

VARIABLES
    \* ---- background_scheduler.py ----
    enabled,              \* BackgroundScheduler.enabled, per process
    schedPc,              \* position of each process inside start()
    scheduler_lock_fd,    \* _scheduler_lock_fd is an open file (TRUE) or None
    lockHolder,           \* process whose open file description holds the flock
    is_scheduler_owner,   \* _is_scheduler_owner
    stop_event,           \* _stop_event.is_set()
    refresh_thread,       \* state of the "cve-refresh" thread
    version_thread        \* state of the "version-refresh" thread

VARIABLES
    \* ---- shared_cache.py ----
    now,                  \* datetime.now()
    cacheFile,            \* parsed content of the cache file: key -> entry
    cacheExists,          \* self._cache_file.exists()
    exHolder,             \* cache object holding LOCK_EX on the cache file
    shHolders,            \* cache objects holding LOCK_SH on the cache file
    cachePc,              \* position of each cache object inside its operation
    cacheOp,              \* the operation in progress and its arguments
    cacheLocal,           \* the local `cache` dict between _read_cache and _write_cache
    cacheFlushed,         \* the buffered json.dump output has reached the file
    cacheOrphan,          \* the open handle refers to an unlinked file
    cacheRet,             \* the (value, is_valid) returned by the last get()
    committed,            \* history: the entry of the last returned set() of a key
    seen,                 \* history: `committed` of the key when a get() began
    getOutcome,           \* history: how the last get() compared with `committed`
    cacheOps              \* history: number of cache operations started

VARIABLES
    \* ---- trivy_utils.py: the background scan queue of one process ----
    scan_queue,           \* _scan_queue: sequence of (image_name, docker_client)
    pending_scans,        \* _pending_scans
    scanner_thread,       \* _scanner_thread: the thread object last assigned, or None
    workerPc,             \* position of every created scanner thread in _scanner_loop
    workerItem,           \* the item a scanner thread took from the queue
    callerPc,             \* position of each calling thread inside queue_scan
    callerArg             \* (image_name, docker_client) of the call in progress

VARIABLES
    \* ---- trivy_utils.py: scan_image, one scanning thread per process ----
    scanPc,               \* position of the process inside scan_image
    scanArg,              \* (image_name, docker_client) of the call in progress
    scanRet,              \* what the last scan_image call of the process returned
    scanExpect,           \* history: a scan of the digest had completed when the call began
    completed,            \* history: per digest, when the last completed scan ran the scanner
    scans                 \* number of scan_image calls so far

VARIABLES
    \* ---- update_manager.py: update() against one container engine ----
    updLock,              \* per lock file: the updater whose descriptor holds the flock
    containers,           \* the engine's containers, by name
    tags,                 \* the engine's image store: tag -> image id
    registry,             \* the registry: tag -> image id
    portainer,            \* PortainerClient.is_configured()
    updPc,                \* position of each updater inside update()
    updArg,               \* (container_name, force, new_image) of the call
    updLocal,             \* the locals of _do_update / _perform_update
    updRet,               \* the result of the updater's last call
    updActed,             \* history: the call has performed a step
    updHist,              \* history: the image the container ran when the call took
                          \* the lock, and the engine operations the call has done
    updates               \* number of update() calls so far

VARIABLES
    \* ---- get_data.py: one get_all_data() collection pass ----
    servers,              \* discover_docker_clients(): the hosts, as a list
    hostStatus,           \* status of each host as discovery left it
    task,                 \* state of the pool task of each host
    finished,             \* history: the hosts in the order their tasks returned
    gadPc,                \* position of the request thread in get_all_data
    gadIdx,               \* index of the future the request thread waits for
    all_container_data,   \* the container list being assembled
    server_list_for_json, \* status of each host in the "servers" of the result
    timed_out             \* history: the hosts whose future.result timed out

schedVars == << enabled, schedPc, scheduler_lock_fd, lockHolder,
                is_scheduler_owner, stop_event, refresh_thread, version_thread >>

cacheVars == << now, cacheFile, cacheExists, exHolder, shHolders, cachePc, cacheOp,
                cacheLocal, cacheFlushed, cacheOrphan, cacheRet, committed, seen,
                getOutcome, cacheOps >>

queueVars == << scan_queue, pending_scans, scanner_thread, workerPc, workerItem,
                callerPc, callerArg >>

scanVars == << scanPc, scanArg, scanRet, scanExpect, completed, scans >>

updVars == << updLock, containers, tags, registry, portainer, updPc, updArg,
              updLocal, updRet, updActed, updHist, updates >>

VARIABLES
    \* ---- scan_history.py: the history store ----
    fingerprint_history,  \* the rows of table fingerprint_history
    histNow,              \* the wall clock
    fpPc,                 \* position of each thread inside record_fingerprint
    fpArg,                \* the parameter tuple of the thread's INSERT
    fpRet,                \* what the thread's last record_fingerprint returned
    firstRow,             \* history: per pair, the tuple of its first INSERT
    ignoredRows,          \* history: the tuples of the later INSERTs
    fpCalls,              \* number of record_fingerprint calls so far
    scan_results,         \* the rows of table scan_results
    trendRet              \* the answer of calculate_trend on the present table

VARIABLES
    \* ---- api_keys.py: the API key store ----
    api_keys,             \* the rows of table api_keys
    akNow,                \* the wall clock (UTC)
    issued,               \* history: the plaintext keys create_key has returned
    revokedIds,           \* history: the ids for which revoke_key returned True
    valPc,                \* position of each client inside validate_key
    valArg,               \* the key and the time read by the client's call
    valRet                \* what the client's last validate_key returned

VARIABLES
    \* ---- version_checker.py: VersionParser ----
    verTags,              \* three tags
    verParsed,            \* parse() of each of them
    verCmp                \* compare() of each two parsed tuples

VARIABLES
    \* ---- version_checker.py: check_for_newer_version ----
    selCurrent,           \* the tag of the image
    selTags,              \* the tags the registry returned
    selPc,                \* position inside check_for_newer_version
    newer_versions,       \* the candidates that passed the filters
    selResult             \* the tag of the returned VersionInfo; empty for None

VARIABLES
    \* ---- version_checker.py: the shared version cache file ----
    vcFile,               \* the JSON object in VERSION_CACHE_FILE, by image
    vcNow,                \* the wall clock
    vcPc,                 \* position of each process in check_for_newer_version
    vcCall,               \* the image and the locals of the process's call
    vcRet,                \* what the process's last call returned
    vcExpect,             \* history: a fresh cached comparison existed at the call
    vcRequested,          \* history: the call has asked the registry for tags
    vcCompleted,          \* history: per image, the timestamp last cached
    vcChecks              \* number of calls so far

invVars == << servers, hostStatus, task, finished, gadPc, gadIdx,
              all_container_data, server_list_for_json, timed_out >>

coreVars == << schedVars, cacheVars, queueVars, scanVars, updVars >>

histVars == << fingerprint_history, histNow, fpPc, fpArg, fpRet, firstRow,
               ignoredRows, fpCalls, scan_results, trendRet >>

akVars == << api_keys, akNow, issued, revokedIds, valPc, valArg, valRet >>

verVars == << verTags, verParsed, verCmp >>

selVars == << selCurrent, selTags, selPc, newer_versions, selResult >>

vcVars == << vcFile, vcNow, vcPc, vcCall, vcRet, vcExpect, vcRequested,
             vcCompleted, vcChecks >>


VARIABLES
    cancelled,      \* CancellationToken._cancelled of the worker's update_checker
    ucPc,           \* position of each /check-updates request
    ucIdx,          \* processed_containers of each request
    was_cancelled,  \* was_cancelled of each request
    ucResult,       \* what the request's current check_image_updates call returns
    ucPulled,       \* outcome of the pull the current call waits for
    updateCache,    \* cached update decision per container, << >> when none is valid
    ucHist          \* history of each request against the token

ucVars == << cancelled, ucPc, ucIdx, was_cancelled, ucResult, ucPulled,
             updateCache, ucHist >>


VARIABLES
    trivy_response, \* "Results" of the response: per entry the "Severity" of its findings
    nrPc,           \* how far the response has travelled
    normalized,     \* the ScanResult of _normalize_response
    cache_dict,     \* the dict _serialize_scan_result hands to the cache
    restored        \* the ScanResult of _deserialize_scan_result

nrVars == << trivy_response, nrPc, normalized, cache_dict, restored >>


VARIABLES
    history_file,   \* the journal file: the JSON documents written into it, in file order
    jrLock,         \* flock holder of the journal file, 0 when free
    jrPc,           \* position of each process in _append_history
    jrRecord,       \* the record each process is appending
    jrRecords,      \* records of each process
    jrBuffer,       \* text each process has written to f but not yet flushed
    jrOrder,        \* records in the order their appends took the lock
    jrReturned      \* records whose _append_history has returned

jrVars == << history_file, jrLock, jrPc, jrRecord, jrRecords, jrBuffer,
             jrOrder, jrReturned >>


VARIABLES
    observation,    \* the container as the engine shows it, and the calling thread
    stPc,           \* "called" or "returned"
    stRet           \* the pair get_status_with_exit_code returns

stVars == << observation, stPc, stRet >>


VARIABLES
    environ,        \* DOCKER_HOST_NAME and, per number, DOCKER_HOST_<n>_NAME or "absent"
    dcPc,           \* "environ", "configs", "returned"
    configs,        \* the list EnvironmentConfigParser.parse returns
    dcPending,      \* positions of configs whose future has not completed
    dcHosts         \* hosts, as _perform_discovery builds and returns it

dcVars == << environ, dcPc, configs, dcPending, dcHosts >>


VARIABLES
    dpPhase,        \* "update" while _perform_update runs, then "dependents", "returned"
    dpStatus,       \* result["status"] of _perform_update
    dpTargetId,     \* id of the container that holds the target's name
    dpMode,         \* NetworkMode of each dependent when it was discovered
    dpPc,           \* position of _recreate_container for each dependent
    dpOrig,         \* the dependent as discovered: the name it holds and its state
    dpNew,          \* the container created in its place: state and network_mode
    dpRet,          \* what _recreate_container returned
    failed_recreates \* dependents named in the warning of the result message

dpVars == << dpPhase, dpStatus, dpTargetId, dpMode, dpPc, dpOrig, dpNew, dpRet,
             failed_recreates >>


VARIABLES
    compose,        \* StackFileContent of the stack, a sequence of lines
    ptArg,          \* container_name and new_image of the update
    ptPc,           \* position in _do_update / update_via_portainer
    stack_info,     \* what get_container_stack returned
    ptSubmitted,    \* stackFileContent of the PUT, << >> when nothing was put
    ptRet           \* "none", "success", or "engine" once the engine path is entered

ptVars == << compose, ptArg, ptPc, stack_info, ptSubmitted, ptRet >>


VARIABLES
    snapshots,      \* the `containers` argument of queue_auto_scan
    asPending,      \* _pending_scans when the call begins and as it grows
    asPc,           \* index of the snapshot the loop is at, 0 once returned
    seen_images,    \* the local seen_images
    queued,         \* the local counter, which is returned
    asPut           \* the images put on the scan queue by this call, in order

asVars == << snapshots, asPending, asPc, seen_images, queued, asPut >>


VARIABLES
    vlName,         \* the image name handed in
    vlPath,         \* "sync" (scan_image called directly) or "queued" (queue_scan)
    vlPc,           \* position in queue_scan, _scanner_loop and scan_image
    vlCalls,        \* calls that carried the name: who made them and to what
    vlCached,       \* a result for the name has been written to the scan cache
    vlRet           \* what scan_image returned

vlVars == << vlName, vlPath, vlPc, vlCalls, vlCached, vlRet >>


VARIABLES
    elContainers,   \* the engine's containers: labels, status, cached version result
    elData,         \* data['containers'] of get_all_data, << >> before it ran
    elPc,           \* "inventory", then the index of the loop, 0 once returned
    eligible        \* the local list `eligible`, as indexes into the inventory

elVars == << elContainers, elData, elPc, eligible >>

laterVars == << invVars, histVars, akVars, verVars, selVars, vcVars, ucVars, nrVars, jrVars, stVars, dcVars, dpVars, ptVars, asVars, vlVars, elVars >>

vars == << coreVars, laterVars >>

(***************************************************************************)
(* Background scheduler (background_scheduler.py).                         *)
(***************************************************************************)
ThreadStates == {"none", "delay", "iter", "caught", "wait", "exited"}

\* a subsystem that a specification does not run stays in this state
SchedQuiet ==
    /\ enabled = [p \in Procs |-> TRUE]
    /\ schedPc = [p \in Procs |-> "init"]
    /\ scheduler_lock_fd = [p \in Procs |-> FALSE]
    /\ lockHolder = NoProc
    /\ is_scheduler_owner = [p \in Procs |-> FALSE]
    /\ stop_event = [p \in Procs |-> FALSE]
    /\ refresh_thread = [p \in Procs |-> "none"]
    /\ version_thread = [p \in Procs |-> "none"]

\* BackgroundScheduler.__init__ in every worker process; BACKGROUND_REFRESH_ENABLED
\* may be set or not
SchedInit ==
    /\ enabled \in [Procs -> BOOLEAN]
    /\ schedPc = [p \in Procs |-> "init"]
    /\ scheduler_lock_fd = [p \in Procs |-> FALSE]
    /\ lockHolder = NoProc
    /\ is_scheduler_owner = [p \in Procs |-> FALSE]
    /\ stop_event = [p \in Procs |-> FALSE]
    /\ refresh_thread = [p \in Procs |-> "none"]
    /\ version_thread = [p \in Procs |-> "none"]

\* fcntl.flock(fd, LOCK_EX | LOCK_NB) granted to everyone: the lock is not exclusive
flock_ex_nb_shared(holder, p) == TRUE

\* fcntl.flock(fd, LOCK_EX | LOCK_NB) succeeds iff no other open file
\* description holds a lock on the file
flock_ex_nb(holder, p) == holder = NoProc

\* start(): `if not self.enabled: return`, else the open() of the lock file
StartOpen(p) ==
    /\ schedPc[p] = "init"
    /\ IF ~enabled[p]
         THEN /\ schedPc' = [schedPc EXCEPT ![p] = "disabled"]
              /\ UNCHANGED scheduler_lock_fd
         ELSE /\ schedPc' = [schedPc EXCEPT ![p] = "opened"]
              /\ scheduler_lock_fd' = [scheduler_lock_fd EXCEPT ![p] = TRUE]
    /\ UNCHANGED << enabled, lockHolder, is_scheduler_owner, stop_event,
                    refresh_thread, version_thread >>

\* _try_acquire_scheduler_lock(): the non-blocking flock and both outcomes;
\* start() stores the result in _is_scheduler_owner and a loser returns
StartFlock(p) ==
    /\ schedPc[p] = "opened"
    /\ IF flock_ex_nb(lockHolder, p)
         THEN /\ lockHolder' = p
              /\ is_scheduler_owner' = [is_scheduler_owner EXCEPT ![p] = TRUE]
              /\ schedPc' = [schedPc EXCEPT ![p] = "acquired"]
              /\ UNCHANGED scheduler_lock_fd
         ELSE /\ scheduler_lock_fd' = [scheduler_lock_fd EXCEPT ![p] = FALSE]
              /\ is_scheduler_owner' = [is_scheduler_owner EXCEPT ![p] = FALSE]
              /\ schedPc' = [schedPc EXCEPT ![p] = "loser"]
              /\ UNCHANGED lockHolder
    /\ UNCHANGED << enabled, stop_event, refresh_thread, version_thread >>

\* start(): self._refresh_thread.start()
StartRefreshThread(p) ==
    /\ schedPc[p] = "acquired"
    /\ refresh_thread' = [refresh_thread EXCEPT ![p] = "delay"]
    /\ schedPc' = [schedPc EXCEPT ![p] = "refresh_started"]
    /\ UNCHANGED << enabled, scheduler_lock_fd, lockHolder, is_scheduler_owner,
                    stop_event, version_thread >>

\* start(): self._version_thread.start(), then start() returns
StartVersionThread(p) ==
    /\ schedPc[p] = "refresh_started"
    /\ version_thread' = [version_thread EXCEPT ![p] = "delay"]
    /\ schedPc' = [schedPc EXCEPT ![p] = "owner"]
    /\ UNCHANGED << enabled, scheduler_lock_fd, lockHolder, is_scheduler_owner,
                    stop_event, refresh_thread >>

\* an error of an iteration that ends the loop thread
iteration_raised_uncaught == "exited"

\* `except Exception as e: logger.error(...)` inside the while loop
iteration_raised == "caught"

\* one step of a loop thread: after the initial sleep or the interval wait
\* the `while not self._stop_event.is_set()` test either enters an iteration
\* or leaves the loop; an iteration in progress runs to its end or raises,
\* and after the except clause the thread waits for the interval
loop_step(state, stopped, raised) ==
    CASE state \in {"delay", "wait"} -> IF stopped THEN "exited" ELSE "iter"
      [] state = "iter" -> IF raised THEN iteration_raised ELSE "wait"
      [] state = "caught" -> "wait"
      [] OTHER -> state

\* _refresh_loop()
RefreshLoopStep(p) ==
    /\ refresh_thread[p] \in {"delay", "iter", "caught", "wait"}
    /\ \E raised \in BOOLEAN :
          refresh_thread' = [refresh_thread EXCEPT
                               ![p] = loop_step(refresh_thread[p], stop_event[p], raised)]
    /\ UNCHANGED << enabled, schedPc, scheduler_lock_fd, lockHolder,
                    is_scheduler_owner, stop_event, version_thread >>

\* _version_loop()
VersionLoopStep(p) ==
    /\ version_thread[p] \in {"delay", "iter", "caught", "wait"}
    /\ \E raised \in BOOLEAN :
          version_thread' = [version_thread EXCEPT
                               ![p] = loop_step(version_thread[p], stop_event[p], raised)]
    /\ UNCHANGED << enabled, schedPc, scheduler_lock_fd, lockHolder,
                    is_scheduler_owner, stop_event, refresh_thread >>

\* stop(): set the stop event, unlock and close the lock file if it is open.
\* The loop threads are not joined.
Stop(p) ==
    /\ schedPc[p] \in {"owner", "loser", "disabled"}
    /\ stop_event' = [stop_event EXCEPT ![p] = TRUE]
    /\ IF scheduler_lock_fd[p]
         THEN /\ lockHolder' = IF lockHolder = p THEN NoProc ELSE lockHolder
              /\ scheduler_lock_fd' = [scheduler_lock_fd EXCEPT ![p] = FALSE]
         ELSE UNCHANGED << lockHolder, scheduler_lock_fd >>
    /\ UNCHANGED << enabled, schedPc, is_scheduler_owner, refresh_thread,
                    version_thread >>

StartReturned(p) == schedPc[p] \in {"owner", "loser", "disabled"}

\* a process is executing periodic refresh work
Iterating(p) == refresh_thread[p] = "iter" \/ version_thread[p] = "iter"

HasLoop(p) == refresh_thread[p] # "none" \/ version_thread[p] # "none"

(***************************************************************************)
(* File-backed TTL cache (shared_cache.py).  A "cache process" is one      *)
(* FileBasedCache object: its _local_lock serialises its own operations,   *)
(* so each object runs one operation at a time; objects in different       *)
(* worker processes share only the cache file and its flock state.         *)
(***************************************************************************)
Keys == {"k1", "k2"}
Values == {"v1", "v2"}

\* FileBasedCache._duration, in clock ticks
Duration == 1

\* datetime.isoformat() / datetime.fromisoformat(): the timestamp is stored
\* as a string and parsed back
isoformat(t) == << "iso", t >>
fromisoformat(s) == s[2]

\* the JSON value {'data': ..., 'timestamp': ...} stored under a key
Entry(v, t) == [data |-> v, timestamp |-> isoformat(t)]
\* "key not in cache"
NoEntry == [data |-> "None", timestamp |-> isoformat(0 - 1)]
\* {} : also what _read_cache returns for an empty or unparsable file
EmptyCache == [k \in Keys |-> NoEntry]

NoOp == [op |-> "none", key |-> "-", value |-> "-"]
\* no get() has returned since the cache object began its current operation
NoRet == [value |-> "-", valid |-> FALSE]

\* `datetime.now() - timestamp < timedelta(seconds=self._duration)`
Fresh(entry, t) == t - fromisoformat(entry.timestamp) < Duration

CacheInit ==
    /\ now = 0
    /\ cacheFile = EmptyCache
    /\ cacheExists = FALSE
    /\ exHolder = NoProc
    /\ shHolders = {}
    /\ cachePc = [p \in CacheProcs |-> "idle"]
    /\ cacheOp = [p \in CacheProcs |-> NoOp]
    /\ cacheLocal = [p \in CacheProcs |-> EmptyCache]
    /\ cacheFlushed = [p \in CacheProcs |-> FALSE]
    /\ cacheOrphan = [p \in CacheProcs |-> FALSE]
    /\ cacheRet = [p \in CacheProcs |-> NoRet]
    /\ committed = EmptyCache
    /\ seen = [p \in CacheProcs |-> NoEntry]
    /\ getOutcome = [p \in CacheProcs |-> "none"]
    /\ cacheOps = 0

\* the wall clock advances
Tick ==
    /\ now < MaxTime
    /\ now' = now + 1
    /\ UNCHANGED << cacheRet, cacheFile, cacheExists, exHolder, shHolders, cachePc, cacheOp,
                    cacheLocal, cacheFlushed, cacheOrphan, committed, seen, getOutcome >>

\* get(key): take _local_lock, call _read_cache
BeginGet(p, k) ==
    /\ cachePc[p] = "idle"
    /\ cachePc' = [cachePc EXCEPT ![p] = "read"]
    /\ cacheOp' = [cacheOp EXCEPT ![p] = [op |-> "get", key |-> k, value |-> "-"]]
    /\ seen' = [seen EXCEPT ![p] = committed[k]]
    /\ getOutcome' = [getOutcome EXCEPT ![p] = "none"]
    /\ cacheRet' = [cacheRet EXCEPT ![p] = NoRet]
    /\ UNCHANGED << now, cacheFile, cacheExists, exHolder, shHolders, cacheLocal,
                    cacheFlushed, cacheOrphan, committed >>

\* set(key, value): take _local_lock, call _read_cache
BeginSet(p, k, v) ==
    /\ cachePc[p] = "idle"
    /\ cachePc' = [cachePc EXCEPT ![p] = "read"]
    /\ cacheOp' = [cacheOp EXCEPT ![p] = [op |-> "set", key |-> k, value |-> v]]
    /\ committed' = [committed EXCEPT ![k] = NoEntry]
    /\ getOutcome' = [getOutcome EXCEPT ![p] = "none"]
    /\ cacheRet' = [cacheRet EXCEPT ![p] = NoRet]
    /\ UNCHANGED << now, cacheFile, cacheExists, exHolder, shHolders, cacheLocal,
                    cacheFlushed, cacheOrphan, seen >>

\* delete(key): take _local_lock, call _read_cache
BeginDelete(p, k) ==
    /\ cachePc[p] = "idle"
    /\ cachePc' = [cachePc EXCEPT ![p] = "read"]
    /\ cacheOp' = [cacheOp EXCEPT ![p] = [op |-> "delete", key |-> k, value |-> "-"]]
    /\ committed' = [committed EXCEPT ![k] = NoEntry]
    /\ getOutcome' = [getOutcome EXCEPT ![p] = "none"]
    /\ cacheRet' = [cacheRet EXCEPT ![p] = NoRet]
    /\ UNCHANGED << now, cacheFile, cacheExists, exHolder, shHolders, cacheLocal,
                    cacheFlushed, cacheOrphan, seen >>

\* prune_expired(): take _local_lock, call _read_cache
BeginPrune(p) ==
    /\ cachePc[p] = "idle"
    /\ cachePc' = [cachePc EXCEPT ![p] = "read"]
    /\ cacheOp' = [cacheOp EXCEPT ![p] = [op |-> "prune", key |-> "-", value |-> "-"]]
    /\ getOutcome' = [getOutcome EXCEPT ![p] = "none"]
    /\ cacheRet' = [cacheRet EXCEPT ![p] = NoRet]
    /\ UNCHANGED << now, cacheFile, cacheExists, exHolder, shHolders, cacheLocal,
                    cacheFlushed, cacheOrphan, committed, seen >>

\* cache objects that have the cache file open
HasHandle(q) == cachePc[q] \in {"reading", "wr_lock", "wr_dump", "wr_unlock", "wr_close"}

\* clear(): unlink the cache file.  Handles that are open keep the unlinked
\* file: what they write is never seen again, what they read is the content
\* the file had, and their locks no longer exclude users of the new file.
Clear(p) ==
    /\ cachePc[p] = "idle"
    /\ cacheExists
    /\ cacheExists' = FALSE
    /\ cacheFile' = EmptyCache
    /\ cacheOrphan' = [q \in CacheProcs |-> cacheOrphan[q] \/ HasHandle(q)]
    /\ cacheLocal' = [q \in CacheProcs |->
                        IF cachePc[q] = "reading" /\ ~cacheOrphan[q]
                          THEN cacheFile ELSE cacheLocal[q]]
    /\ exHolder' = NoProc
    /\ shHolders' = {}
    /\ committed' = EmptyCache
    /\ UNCHANGED << now, cacheRet, cachePc, cacheOp, cacheFlushed, seen, getOutcome >>

\* keys whose entry has expired (an entry is never malformed in this model)
ExpiredKeys(content, t) == {k \in Keys : content[k] # NoEntry /\ ~Fresh(content[k], t)}

\* another cache object is inside set() of a different key
ConcurrentSet(p, k) ==
    \E q \in CacheProcs \ {p} : cacheOp[q].op = "set" /\ cacheOp[q].key # k

\* get(): the (value, is_valid) computed from the dict that _read_cache returned
get_valid(content, k, t) == content[k] # NoEntry /\ Fresh(content[k], t)
get_value(content, k, t) == IF get_valid(content, k, t) THEN content[k].data ELSE "None"

\* history: the result of a get() against the last returned set() of the key
Outcome(p, k, content) ==
    LET c == committed[k]
        stable == c # NoEntry /\ seen[p] = c
        valid == get_valid(content, k, now)
        value == get_value(content, k, now)
    IN  IF ~stable THEN "unchecked"
        ELSE IF Fresh(c, now)
               THEN IF valid /\ value = c.data THEN "fresh_hit"
                    ELSE IF valid THEN "fresh_wrong_value"
                    ELSE IF ConcurrentSet(p, k) THEN "fresh_miss_during_set"
                    ELSE "fresh_miss"
               ELSE IF valid THEN "expired_hit" ELSE "expired_miss"

\* the body of get/set/delete/prune_expired after _read_cache has returned
\* `content`: get returns; set stores the entry stamped datetime.now();
\* delete and prune_expired write only if they removed something
AfterRead(p, content) ==
    LET o == cacheOp[p]
        expired == ExpiredKeys(content, now)
        toWrite ==
            CASE o.op = "set" -> [content EXCEPT ![o.key] = Entry(o.value, now)]
              [] o.op = "delete" -> [content EXCEPT ![o.key] = NoEntry]
              [] o.op = "prune" -> [k \in Keys |-> IF k \in expired THEN NoEntry
                                                    ELSE content[k]]
              [] OTHER -> EmptyCache
        writes ==
            \/ o.op = "set"
            \/ o.op = "delete" /\ content[o.key] # NoEntry
            \/ o.op = "prune" /\ expired # {}
    IN  /\ IF writes
             THEN /\ cachePc' = [cachePc EXCEPT ![p] = "wr_open"]
                  /\ cacheLocal' = [cacheLocal EXCEPT ![p] = toWrite]
                  /\ UNCHANGED cacheOp
             ELSE /\ cachePc' = [cachePc EXCEPT ![p] = "idle"]
                  /\ cacheLocal' = [cacheLocal EXCEPT ![p] = EmptyCache]
                  /\ cacheOp' = [cacheOp EXCEPT ![p] = NoOp]
        /\ getOutcome' = IF o.op = "get"
                           THEN [getOutcome EXCEPT ![p] = Outcome(p, o.key, content)]
                           ELSE getOutcome
        /\ cacheRet' = IF o.op = "get"
                         THEN [cacheRet EXCEPT
                                 ![p] = [value |-> get_value(content, o.key, now),
                                         valid |-> get_valid(content, o.key, now)]]
                         ELSE cacheRet
        /\ seen' = [seen EXCEPT ![p] = NoEntry]

\* _read_cache(): `if not exists: return {}`, else open and flock(LOCK_SH),
\* which waits while another handle holds LOCK_EX
ReadLock(p) ==
    /\ cachePc[p] = "read"
    /\ IF ~cacheExists
         THEN /\ AfterRead(p, EmptyCache)
              /\ UNCHANGED shHolders
         ELSE /\ exHolder = NoProc
              /\ shHolders' = shHolders \cup {p}
              /\ cachePc' = [cachePc EXCEPT ![p] = "reading"]
              /\ UNCHANGED << cacheOp, cacheLocal, cacheRet, getOutcome, seen >>
    /\ UNCHANGED << now, cacheFile, cacheExists, exHolder, cacheFlushed,
                    cacheOrphan, committed >>

\* _read_cache(): f.read(), json.loads, flock(LOCK_UN), close
ReadFile(p) ==
    /\ cachePc[p] = "reading"
    /\ AfterRead(p, IF cacheOrphan[p] THEN cacheLocal[p] ELSE cacheFile)
    /\ shHolders' = shHolders \ {p}
    /\ cacheOrphan' = [cacheOrphan EXCEPT ![p] = FALSE]
    /\ UNCHANGED << now, cacheFile, cacheExists, exHolder, cacheFlushed,
                    committed >>

\* _write_cache(): open(self._cache_file, 'w') creates or truncates the file
WriteOpen(p) ==
    /\ cachePc[p] = "wr_open"
    /\ cacheExists' = TRUE
    /\ cacheFile' = EmptyCache
    /\ cachePc' = [cachePc EXCEPT ![p] = "wr_lock"]
    /\ UNCHANGED << now, cacheRet, exHolder, shHolders, cacheOp, cacheLocal, cacheFlushed,
                    cacheOrphan, committed, seen, getOutcome >>

\* _write_cache(): flock(LOCK_EX) waits until no other handle holds a lock
WriteLock(p) ==
    /\ cachePc[p] = "wr_lock"
    /\ cacheOrphan[p] \/ (exHolder = NoProc /\ shHolders \ {p} = {})
    /\ exHolder' = IF cacheOrphan[p] THEN exHolder ELSE p
    /\ cachePc' = [cachePc EXCEPT ![p] = "wr_dump"]
    /\ UNCHANGED << now, cacheRet, cacheFile, cacheExists, shHolders, cacheOp, cacheLocal,
                    cacheFlushed, cacheOrphan, committed, seen, getOutcome >>

\* _write_cache(): json.dump(cache, f) writes into the file object's buffer;
\* the bytes reach the file here or only when the file is closed
WriteDump(p) ==
    /\ cachePc[p] = "wr_dump"
    /\ cachePc' = [cachePc EXCEPT ![p] = "wr_unlock"]
    /\ \/ /\ cacheFlushed' = [cacheFlushed EXCEPT ![p] = TRUE]
          /\ cacheFile' = IF cacheOrphan[p] THEN cacheFile ELSE cacheLocal[p]
       \/ UNCHANGED << cacheFlushed, cacheFile >>
    /\ UNCHANGED << now, cacheRet, cacheExists, exHolder, shHolders, cacheOp, cacheLocal,
                    cacheOrphan, committed, seen, getOutcome >>

\* _write_cache(): flock(LOCK_UN) in the finally clause
WriteUnlock(p) ==
    /\ cachePc[p] = "wr_unlock"
    /\ exHolder' = IF exHolder = p THEN NoProc ELSE exHolder
    /\ cachePc' = [cachePc EXCEPT ![p] = "wr_close"]
    /\ UNCHANGED << now, cacheRet, cacheFile, cacheExists, shHolders, cacheOp, cacheLocal,
                    cacheFlushed, cacheOrphan, committed, seen, getOutcome >>

\* another cache object is inside set() or delete() of the same key
ConflictingOp(p, k) ==
    \E q \in CacheProcs \ {p} :
        cacheOp[q].op \in {"set", "delete"} /\ cacheOp[q].key = k

\* _write_cache(): leaving `with open(...)` closes the file, which flushes
\* the buffer; then the operation returns and releases _local_lock
WriteClose(p) ==
    /\ cachePc[p] = "wr_close"
    /\ cacheFile' = IF cacheFlushed[p] \/ cacheOrphan[p] THEN cacheFile
                    ELSE cacheLocal[p]
    /\ committed' = IF /\ cacheOp[p].op = "set"
                       /\ ~cacheOrphan[p]
                       /\ ~ConflictingOp(p, cacheOp[p].key)
                      THEN [committed EXCEPT
                              ![cacheOp[p].key] = cacheLocal[p][cacheOp[p].key]]
                      ELSE committed
    /\ cachePc' = [cachePc EXCEPT ![p] = "idle"]
    /\ cacheOp' = [cacheOp EXCEPT ![p] = NoOp]
    /\ cacheLocal' = [cacheLocal EXCEPT ![p] = EmptyCache]
    /\ cacheFlushed' = [cacheFlushed EXCEPT ![p] = FALSE]
    /\ cacheOrphan' = [cacheOrphan EXCEPT ![p] = FALSE]
    /\ UNCHANGED << now, cacheRet, cacheExists, exHolder, shHolders, seen, getOutcome >>

CacheIdle == \A p \in CacheProcs : cachePc[p] = "idle"

(***************************************************************************)
(* Background scan queue of one process (trivy_utils.py, TrivyClient).     *)
(* The calling threads are request handlers and the scheduler's refresh    *)
(* thread; a scanner thread is named after the caller that created it.     *)
(* The TrivyClient of a process owns one FileBasedCache object, whose      *)
(* _local_lock makes its get and set atomic inside the process.            *)
(***************************************************************************)
\* image references handed to queue_scan
Images == {"img1", "img2"}

\* get_image_digest(): the digest the engine reports for an image reference
\* ("img1" and "img1b" are two references of one image)
get_image_digest(image) ==
    CASE image = "img1" -> "k1"
      [] image = "img1b" -> "k1"
      [] OTHER -> "k2"

\* the ScanResult produced by _normalize_response for an image
scan_result(image) == IF get_image_digest(image) = "k1" THEN "v1" ELSE "v2"

NoThread == 0
NoItem == [image |-> "-", client |-> FALSE]

QueueInit ==
    /\ scan_queue = << >>
    /\ pending_scans = {}
    /\ scanner_thread = NoThread
    /\ workerPc = [w \in Callers |-> "none"]
    /\ workerItem = [w \in Callers |-> NoItem]
    /\ callerPc = [t \in Callers |-> "idle"]
    /\ callerArg = [t \in Callers |-> NoItem]

\* `cached, is_valid = self._cache.get(image_digest)`; `is_valid and cached`
cached_valid(image) == get_valid(cacheFile, get_image_digest(image), now)

\* queue_scan(image_name, docker_client): "Check if already cached"
QueueScanCheckCache(t, image, client) ==
    /\ callerPc[t] = "idle"
    /\ IF client /\ cached_valid(image)
         THEN UNCHANGED << callerPc, callerArg >>
         ELSE /\ callerPc' = [callerPc EXCEPT ![t] = "check_pending"]
              /\ callerArg' = [callerArg EXCEPT
                                 ![t] = [image |-> image, client |-> client]]
    /\ UNCHANGED << scan_queue, pending_scans, scanner_thread, workerPc, workerItem >>

\* queue_scan: "Check if already pending", under _pending_lock
QueueScanCheckPending(t) ==
    /\ callerPc[t] = "check_pending"
    /\ IF callerArg[t].image \in pending_scans
         THEN /\ callerPc' = [callerPc EXCEPT ![t] = "idle"]
              /\ callerArg' = [callerArg EXCEPT ![t] = NoItem]
              /\ UNCHANGED pending_scans
         ELSE /\ pending_scans' = pending_scans \cup {callerArg[t].image}
              /\ callerPc' = [callerPc EXCEPT ![t] = "start_thread"]
              /\ UNCHANGED callerArg
    /\ UNCHANGED << scan_queue, scanner_thread, workerPc, workerItem >>

\* Thread.is_alive() of the thread object in _scanner_thread
is_alive(w) == w # NoThread /\ workerPc[w] # "none"

\* _start_scanner_thread(): `if self._scanner_thread is not None and
\* self._scanner_thread.is_alive(): return`
StartScannerThreadCheck(t) ==
    /\ callerPc[t] = "start_thread"
    /\ callerPc' = [callerPc EXCEPT
                      ![t] = IF is_alive(scanner_thread) THEN "put" ELSE "create_thread"]
    /\ UNCHANGED << scan_queue, pending_scans, scanner_thread, workerPc, workerItem,
                    callerArg >>

\* _start_scanner_thread(): create the Thread, assign it, start it
StartScannerThreadCreate(t) ==
    /\ callerPc[t] = "create_thread"
    /\ scanner_thread' = t
    /\ workerPc' = [workerPc EXCEPT ![t] = "wait"]
    /\ callerPc' = [callerPc EXCEPT ![t] = "put"]
    /\ UNCHANGED << scan_queue, pending_scans, workerItem, callerArg >>

\* queue_scan: self._scan_queue.put(...); return True
QueueScanPut(t) ==
    /\ callerPc[t] = "put"
    /\ Len(scan_queue) < MaxQueue
    /\ scan_queue' = Append(scan_queue, callerArg[t])
    /\ callerPc' = [callerPc EXCEPT ![t] = "idle"]
    /\ callerArg' = [callerArg EXCEPT ![t] = NoItem]
    /\ UNCHANGED << pending_scans, scanner_thread, workerPc, workerItem >>

\* _scanner_loop(): item = self._scan_queue.get(timeout=1.0)
ScannerLoopGet(w) ==
    /\ workerPc[w] = "wait"
    /\ scan_queue # << >>
    /\ workerItem' = [workerItem EXCEPT ![w] = Head(scan_queue)]
    /\ scan_queue' = Tail(scan_queue)
    /\ workerPc' = [workerPc EXCEPT ![w] = "took"]
    /\ UNCHANGED << pending_scans, scanner_thread, callerPc, callerArg, cacheFile >>

\* _scanner_loop(): self._pending_scans.discard(image_name), before the scan
ScannerLoopDiscard(w) ==
    /\ workerPc[w] = "took"
    /\ pending_scans' = pending_scans \ {workerItem[w].image}
    /\ workerPc' = [workerPc EXCEPT ![w] = "scanning"]
    /\ UNCHANGED << scan_queue, scanner_thread, workerItem, callerPc, callerArg,
                    cacheFile >>

\* a scanner loop that an error of scan_image ends
after_scan_error_uncaught(w) == "none"

\* _scanner_loop(): `except Exception as e: logger.error(...)` around
\* scan_image; the loop goes on to task_done() and the next get
after_scan_error(w) == "wait"

\* _scanner_loop(): self.scan_image(image_name, docker_client_info), task_done().
\* scan_image returns the cached result, or runs the scanner and, when the
\* scan succeeds and the digest is known, caches the result under the digest
ScannerLoopScan(w) ==
    /\ workerPc[w] = "scanning"
    /\ \E success \in BOOLEAN :
          cacheFile' =
              IF /\ workerItem[w].client
                 /\ ~cached_valid(workerItem[w].image)
                 /\ success
                THEN [cacheFile EXCEPT
                        ![get_image_digest(workerItem[w].image)] =
                            Entry(scan_result(workerItem[w].image), now)]
                ELSE cacheFile
    /\ \E raised \in BOOLEAN :
          workerPc' = [workerPc EXCEPT
                         ![w] = IF raised THEN after_scan_error(w) ELSE "wait"]
    /\ workerItem' = [workerItem EXCEPT ![w] = NoItem]
    /\ UNCHANGED << scan_queue, pending_scans, scanner_thread, callerPc, callerArg >>

\* number of occurrences of an image among the queued and the executing scans
RECURSIVE CountQueued(_, _)
CountQueued(q, image) ==
    IF q = << >> THEN 0
    ELSE (IF Head(q).image = image THEN 1 ELSE 0) + CountQueued(Tail(q), image)

InFlight(image) ==
    CountQueued(scan_queue, image)
      + Cardinality({w \in Callers : workerItem[w].image = image})

(***************************************************************************)
(* scan_image (trivy_utils.py): the processes share the scan cache file;   *)
(* each process has one TrivyClient with one cache object.                 *)
(***************************************************************************)
\* image references handed to scan_image
Refs == Images \cup {"img1b"}

Never == 0 - 1

ScanInit ==
    /\ scanPc = [p \in CacheProcs |-> "idle"]
    /\ scanArg = [p \in CacheProcs |-> NoItem]
    /\ scanRet = [p \in CacheProcs |-> "none"]
    /\ scanExpect = [p \in CacheProcs |-> FALSE]
    /\ completed = [k \in Keys |-> Never]
    /\ scans = 0

\* the variables of the cache file and of the cache objects
cacheState == << now, cacheFile, cacheExists, exHolder, shHolders, cachePc, cacheOp,
                 cacheLocal, cacheFlushed, cacheOrphan, cacheRet, committed, seen,
                 getOutcome >>

\* a scan of digest k has completed and its cache entry cannot have expired
CompletedFresh(k) == completed[k] # Never /\ now - completed[k] < Duration

\* scan_image(image_name, docker_client): is_enabled, health_check(),
\* validate_image_name, get_image_digest, then self._cache.get(image_digest)
ScanBegin(p, image, client, healthy) ==
    /\ scanPc[p] = "idle"
    /\ cachePc[p] = "idle"
    /\ scans < MaxScans
    /\ scans' = scans + 1
    /\ scanExpect' = [scanExpect EXCEPT
                        ![p] = healthy /\ client /\ CompletedFresh(get_image_digest(image))]
    /\ IF ~healthy
         THEN /\ scanRet' = [scanRet EXCEPT ![p] = "None"]
              /\ UNCHANGED << scanPc, scanArg, cacheState >>
         ELSE /\ scanRet' = [scanRet EXCEPT ![p] = "none"]
              /\ scanArg' = [scanArg EXCEPT ![p] = [image |-> image, client |-> client]]
              /\ IF client
                   THEN /\ BeginGet(p, get_image_digest(image))
                        /\ scanPc' = [scanPc EXCEPT ![p] = "lookup"]
                   ELSE /\ scanPc' = [scanPc EXCEPT ![p] = "exec"]
                        /\ UNCHANGED cacheState
    /\ UNCHANGED completed

\* scan_image: `if is_valid and cached: return cached`
ScanAfterLookup(p) ==
    /\ scanPc[p] = "lookup"
    /\ cachePc[p] = "idle"
    /\ IF cacheRet[p].valid /\ cacheRet[p].value # "None"
         THEN /\ scanRet' = [scanRet EXCEPT ![p] = "cached"]
              /\ scanPc' = [scanPc EXCEPT ![p] = "idle"]
              /\ scanArg' = [scanArg EXCEPT ![p] = NoItem]
         ELSE /\ scanPc' = [scanPc EXCEPT ![p] = "exec"]
              /\ UNCHANGED << scanRet, scanArg >>
    /\ UNCHANGED << scanExpect, completed, scans, cacheState >>

\* scan_image: run the scanner; on failure return None; on success normalise
\* the response and, if the digest is known, self._cache.set(image_digest, ...)
ScanExec(p) ==
    /\ scanPc[p] = "exec"
    /\ \E success \in BOOLEAN :
          IF ~success
            THEN /\ scanRet' = [scanRet EXCEPT ![p] = "None"]
                 /\ scanPc' = [scanPc EXCEPT ![p] = "idle"]
                 /\ scanArg' = [scanArg EXCEPT ![p] = NoItem]
                 /\ UNCHANGED << cacheState, completed >>
            ELSE IF scanArg[p].client
                   THEN /\ BeginSet(p, get_image_digest(scanArg[p].image),
                                    scan_result(scanArg[p].image))
                        /\ scanPc' = [scanPc EXCEPT ![p] = "store"]
                        /\ scanRet' = [scanRet EXCEPT ![p] = << "ran", now >>]
                        /\ UNCHANGED << scanArg, completed >>
                   ELSE /\ scanRet' = [scanRet EXCEPT ![p] = "scanned"]
                        /\ scanPc' = [scanPc EXCEPT ![p] = "idle"]
                        /\ scanArg' = [scanArg EXCEPT ![p] = NoItem]
                        /\ UNCHANGED << cacheState, completed >>
    /\ UNCHANGED << scanExpect, scans >>

\* scan_image: the set has returned; notify; return scan_result
ScanReturn(p) ==
    /\ scanPc[p] = "store"
    /\ cachePc[p] = "idle"
    /\ completed' = [completed EXCEPT
                       ![get_image_digest(scanArg[p].image)] = scanRet[p][2]]
    /\ scanRet' = [scanRet EXCEPT ![p] = "scanned"]
    /\ scanPc' = [scanPc EXCEPT ![p] = "idle"]
    /\ scanArg' = [scanArg EXCEPT ![p] = NoItem]
    /\ UNCHANGED << scanExpect, scans, cacheState >>

\* clear_cache(): self._cache.clear()
ClearCache(p) ==
    /\ scanPc[p] = "idle"
    /\ Clear(p)
    /\ completed' = [k \in Keys |-> Never]
    /\ scanExpect' = [q \in CacheProcs |-> FALSE]
    /\ UNCHANGED << scanPc, scanArg, scanRet, scans >>

(***************************************************************************)
(* Container update (update_manager.py).  The updaters are the threads and *)
(* processes that call ContainerUpdater.update() against one engine.       *)
(***************************************************************************)
\* container names, as sequences of characters
ContNames == { << "a", ".", "b" >>, << "d", "b" >> }

\* the characters matched by [a-zA-Z0-9_-]
NameChars == {"a", "b", "d", "_", "-"}

\* ContainerLock.__init__: re.sub(r'[^a-zA-Z0-9_-]', '_', container_name)
safe_name(n) == [i \in DOMAIN n |-> IF n[i] \in NameChars THEN n[i] ELSE "_"]

\* ContainerLock.lock_file, inside LOCK_DIR
lock_file(n) == << "dockpeek_locks", safe_name(n), ".lock" >>
LockFiles == {lock_file(n) : n \in ContNames}

\* the dockpeek.update.action label of a container
update_action(n) == IF n = << "d", "b" >> THEN "pin" ELSE ""

\* image ids and the image references (tags) of the engine and the registry
ImageIds == {"X", "Y"}
ImageRefs == {"latest", "v2"}
NoImage == "none"
None == << "None" >>

TagRef(r) == << "tag", r >>
IdRef(i) == << "id", i >>

Absent == [state |-> "absent", image |-> NoImage, ref |-> None, nets |-> FALSE]
NoArg == [name |-> << >>, force |-> FALSE, new_image |-> None]
NoLocal == [image_name |-> None, image_id |-> NoImage, old_image |-> None,
            networks |-> FALSE, connected |-> FALSE, stage |-> "none"]

UpdateInit ==
    /\ updLock = [f \in LockFiles |-> NoProc]
    /\ containers = [n \in ContNames |->
                       [state |-> "running", image |-> "X", ref |-> TagRef("latest"),
                        nets |-> TRUE]]
    /\ tags = [r \in ImageRefs |-> IF r = "latest" THEN "X" ELSE NoImage]
    /\ registry \in {[r \in ImageRefs |-> IF r = "latest" THEN i ELSE "Y"] : i \in ImageIds}
    /\ portainer \in BOOLEAN
    /\ updPc = [u \in Updaters |-> "idle"]
    /\ updArg = [u \in Updaters |-> NoArg]
    /\ updLocal = [u \in Updaters |-> NoLocal]
    /\ updRet = [u \in Updaters |-> "none"]
    /\ updActed = [u \in Updaters |-> FALSE]
    /\ updHist = [u \in Updaters |-> [pre |-> NoImage, steps |-> {}]]
    /\ updates = 0

\* the engine and registry are as installed and no update has been called
UpdateQuiet ==
    /\ UpdateInit
    /\ registry["latest"] = "Y"
    /\ portainer = FALSE

\* the image id a reference names in the local image store
Resolve(ref) ==
    CASE ref[1] = "tag" -> tags[ref[2]]
      [] ref[1] = "id" -> ref[2]
      [] OTHER -> NoImage

\* image.tags of an image id
TagsOf(id) == {r \in ImageRefs : tags[r] = id}

Goto(u, pc) == updPc' = [updPc EXCEPT ![u] = pc]
\* the call has computed its result (a returned dict or a raised error)
Result(u, r) ==
    /\ updRet' = [updRet EXCEPT ![u] = r]
    /\ Goto(u, "release")
Fail(u, stage) ==
    /\ updLocal' = [updLocal EXCEPT ![u].stage = stage]
    /\ Goto(u, "failed")

\* ContainerLock.acquire(blocking=False) of an always-successful flock
ContainerLock_acquire_unlocked(holder, u) == TRUE

\* ContainerLock.acquire(blocking=False): open the lock file and
\* flock(LOCK_EX | LOCK_NB) on the new open file description
ContainerLock_acquire(holder, u) == holder = NoProc

\* update(): acquire the lock of the container name or return in_progress
Update(u, name, force, new_image) ==
    /\ updPc[u] = "idle"
    /\ updates < MaxUpdates
    /\ updates' = updates + 1
    /\ updArg' = [updArg EXCEPT
                    ![u] = [name |-> name, force |-> force, new_image |-> new_image]]
    /\ updActed' = [updActed EXCEPT ![u] = FALSE]
    /\ IF ContainerLock_acquire(updLock[lock_file(name)], u)
         THEN /\ updLock' = [updLock EXCEPT ![lock_file(name)] = u]
              /\ updRet' = [updRet EXCEPT ![u] = "none"]
              /\ Goto(u, "labels")
         ELSE /\ updRet' = [updRet EXCEPT ![u] = "in_progress"]
              /\ UNCHANGED << updLock, updPc >>
    /\ UNCHANGED << containers, tags, registry, portainer, updLocal >>

\* a label value that blocks nothing
is_blocked_never(action) == FALSE

\* _do_update: `if update_action in ('skip', 'pin')`
is_blocked(action) == action \in {"skip", "pin"}

\* _do_update: "Check orchestration labels for update restrictions"
LabelCheck(u) ==
    /\ updPc[u] = "labels"
    /\ updActed' = [updActed EXCEPT ![u] = TRUE]
    /\ IF /\ containers[updArg[u].name].state # "absent"
          /\ is_blocked(update_action(updArg[u].name))
         THEN Result(u, "blocked")
         ELSE Goto(u, "portainer") /\ UNCHANGED updRet
    /\ UNCHANGED << updLock, containers, tags, registry, portainer, updArg, updLocal,
                    updates >>

\* the reference the orchestrator redeploys the service with
RedeployRef(c, new_image) == IF new_image # None THEN new_image ELSE c.ref

\* _do_update: update_via_portainer when Portainer is configured; a
\* successful redeploy (pullImage) recreates the container from the registry
Portainer(u) ==
    /\ updPc[u] = "portainer"
    /\ LET n == updArg[u].name
           c == containers[n]
           r == RedeployRef(c, updArg[u].new_image)
       IN  \/ /\ portainer
              /\ c.state # "absent"
              /\ Result(u, "success_portainer")
              /\ IF r[1] = "tag"
                   THEN /\ tags' = [tags EXCEPT ![r[2]] = registry[r[2]]]
                        /\ containers' = [containers EXCEPT
                                            ![n] = [state |-> "running",
                                                    image |-> registry[r[2]],
                                                    ref |-> r, nets |-> c.nets]]
                   ELSE /\ containers' = [containers EXCEPT ![n].state = "running"]
                        /\ UNCHANGED tags
           \/ /\ Goto(u, "get")
              /\ UNCHANGED << updRet, containers, tags >>
    /\ UNCHANGED << updLock, registry, portainer, updArg, updLocal, updActed, updates >>

\* _do_update: _get_container, then image_name and container_image_id from
\* new_image or _get_image_info, and the container's network attachments
GetContainer(u) ==
    /\ updPc[u] = "get"
    /\ LET c == containers[updArg[u].name]
       IN  IF c.state = "absent"
             THEN Result(u, "error_not_found") /\ UNCHANGED updLocal
             ELSE /\ updLocal' = [updLocal EXCEPT
                        ![u] = [image_name |-> IF updArg[u].new_image # None
                                                 THEN updArg[u].new_image
                                                 ELSE c.ref,
                                image_id |-> c.image,
                                old_image |-> None,
                                networks |-> c.nets,
                                connected |-> FALSE,
                                stage |-> "none"]]
                  /\ Goto(u, "pull")
                  /\ UNCHANGED updRet
    /\ UNCHANGED << updLock, containers, tags, registry, portainer, updArg, updActed,
                    updates >>

\* a failed pull after which _do_update goes on to replace the container
pull_image_raises_nothing(u) == Goto(u, "old_image") /\ UNCHANGED updRet

\* _pull_image: `except Exception: raise ContainerUpdateError("Failed to pull image")`
pull_image_raises(u) == Result(u, "error_pull")

\* _pull_image: client.images.pull(image_name) moves the tag to the
\* registry's image; a reference that is an image id cannot be pulled
PullImage(u) ==
    /\ updPc[u] = "pull"
    /\ LET r == updLocal[u].image_name
       IN  \/ /\ r[1] = "tag"
              /\ tags' = [tags EXCEPT ![r[2]] = registry[r[2]]]
              /\ Goto(u, "has_updates")
              /\ UNCHANGED updRet
           \/ /\ pull_image_raises(u)
              /\ UNCHANGED tags
    /\ UNCHANGED << updLock, containers, registry, portainer, updArg, updLocal, updActed,
                    updates >>

\* a comparison that always reports an update
has_updates_always(image_name, container_image_id) == TRUE

\* _has_updates: container_image_id != client.images.get(image_name).id
has_updates(image_name, container_image_id) ==
    container_image_id # Resolve(image_name)

\* _do_update: `if not force and not self._has_updates(...)`: already up to date
HasUpdates(u) ==
    /\ updPc[u] = "has_updates"
    /\ IF ~updArg[u].force
          /\ ~has_updates(updLocal[u].image_name, updLocal[u].image_id)
         THEN Result(u, "up_to_date")
         ELSE Goto(u, "old_image") /\ UNCHANGED updRet
    /\ UNCHANGED << updLock, containers, tags, registry, portainer, updArg, updLocal,
                    updActed, updates >>

\* _perform_update: old_image = container.image.tags[0], or container.image.id
\* when the image has no tag; container.image is looked up now, after the pull
OldImage(u) ==
    /\ updPc[u] = "old_image"
    /\ LET id == updLocal[u].image_id
       IN  \E old \in IF TagsOf(id) # {} THEN {TagRef(r) : r \in TagsOf(id)}
                      ELSE {IdRef(id)} :
              updLocal' = [updLocal EXCEPT ![u].old_image = old]
    /\ Goto(u, "stop")
    /\ UNCHANGED << updLock, containers, tags, registry, portainer, updArg, updRet,
                    updActed, updates >>

\* _stop_container: container.stop(), on failure container.kill(), on
\* failure of both raise "Failed to stop container"
StopContainer(u) ==
    /\ updPc[u] = "stop"
    /\ LET n == updArg[u].name
       IN  \/ /\ containers[n].state # "absent"
              /\ containers' = [containers EXCEPT
                                  ![n].state = IF @ = "running" THEN "stopped" ELSE @]
              /\ Goto(u, "remove")
              /\ UNCHANGED updLocal
           \/ /\ Fail(u, "stop")
              /\ UNCHANGED containers
    /\ UNCHANGED << updLock, tags, registry, portainer, updArg, updRet, updActed,
                    updates >>

\* _perform_update: container.remove(force=True); "already in progress" is
\* tolerated, any other APIError is raised
RemoveContainer(u) ==
    /\ updPc[u] = "remove"
    /\ LET n == updArg[u].name
       IN  \/ /\ containers[n].state # "absent"
              /\ \/ containers' = [containers EXCEPT ![n] = Absent]
                 \/ containers' = [containers EXCEPT ![n].state = "removing"]
              /\ Goto(u, "wait")
              /\ UNCHANGED updLocal
           \/ /\ Fail(u, "remove")
              /\ UNCHANGED containers
    /\ UNCHANGED << updLock, tags, registry, portainer, updArg, updRet, updActed,
                    updates >>

\* _wait_for_removal: poll until the container is gone or raise the timeout
WaitForRemoval(u) ==
    /\ updPc[u] = "wait"
    /\ LET n == updArg[u].name
       IN  \/ /\ containers[n].state \in {"absent", "removing"}
              /\ containers' = [containers EXCEPT ![n] = Absent]
              /\ Goto(u, "create")
              /\ UNCHANGED updLocal
           \/ /\ containers[n].state # "absent"
              /\ Fail(u, "wait")
              /\ UNCHANGED containers
    /\ UNCHANGED << updLock, tags, registry, portainer, updArg, updRet, updActed,
                    updates >>

\* containers.create(image, name=..., ...) followed by _connect_networks,
\* which skips a network whose connect call fails
Created(image, networks, connected) ==
    [state |-> "stopped", image |-> Resolve(image), ref |-> image,
     nets |-> networks /\ connected]

\* _create_and_start: containers.create(image_name, **clean_config) and
\* _connect_networks; a failed create raises "Failed to create new container"
CreateContainer(u) ==
    /\ updPc[u] = "create"
    /\ LET n == updArg[u].name
           image == updLocal[u].image_name
       IN  \/ /\ containers[n].state = "absent"
              /\ Resolve(image) # NoImage
              /\ \E connected \in BOOLEAN :
                    /\ containers' = [containers EXCEPT
                          ![n] = Created(image, updLocal[u].networks, connected)]
                    /\ updLocal' = [updLocal EXCEPT ![u].connected = connected]
              /\ Goto(u, "start")
           \/ /\ Fail(u, "create")
              /\ UNCHANGED containers
    /\ UNCHANGED << updLock, tags, registry, portainer, updArg, updRet, updActed,
                    updates >>

\* _create_and_start: new_container.start(), then reload and require the
\* status to be running; _perform_update then returns success
StartContainer(u) ==
    /\ updPc[u] = "start"
    /\ LET n == updArg[u].name
       IN  \/ /\ containers[n].state = "stopped"
              /\ containers' = [containers EXCEPT ![n].state = "running"]
              /\ Result(u, "success")
              /\ UNCHANGED updLocal
           \/ /\ Fail(u, "start")
              /\ UNCHANGED << containers, updRet >>
    /\ UNCHANGED << updLock, tags, registry, portainer, updArg, updActed, updates >>

\* _perform_update, except clause: a running container of the original name
\* means success; otherwise go on to _handle_update_failure
CheckAfterFailure(u) ==
    /\ updPc[u] = "failed"
    /\ IF containers[updArg[u].name].state = "running"
         THEN Result(u, "success_after_error")
         ELSE Goto(u, "cleanup") /\ UNCHANGED updRet
    /\ UNCHANGED << updLock, containers, tags, registry, portainer, updArg, updLocal,
                    updActed, updates >>

\* _handle_update_failure: remove a non-running container of the original
\* name; a failure of this cleanup is only logged
CleanupPartial(u) ==
    /\ updPc[u] = "cleanup"
    /\ LET n == updArg[u].name
       IN  \/ /\ containers[n].state \notin {"absent", "running"}
              /\ containers' = [containers EXCEPT ![n] = Absent]
           \/ UNCHANGED containers
    /\ Goto(u, "restore")
    /\ UNCHANGED << updLock, tags, registry, portainer, updArg, updLocal, updRet,
                    updActed, updates >>

\* the image handed to containers.create by a restore that uses the target image
RestoreImageTarget(old_image, image_name) == image_name

\* _handle_update_failure: the image handed to containers.create(old_image, **config)
RestoreImage(old_image, image_name) == old_image

\* _handle_update_failure: containers.create(old_image, **config) and
\* _connect_networks; a failure raises the CRITICAL error
RestoreCreate(u) ==
    /\ updPc[u] = "restore"
    /\ LET n == updArg[u].name
           image == RestoreImage(updLocal[u].old_image, updLocal[u].image_name)
       IN  \/ /\ containers[n].state = "absent"
              /\ Resolve(image) # NoImage
              /\ \E connected \in BOOLEAN :
                    /\ containers' = [containers EXCEPT
                          ![n] = Created(image, updLocal[u].networks, connected)]
                    /\ updLocal' = [updLocal EXCEPT ![u].connected = connected]
              /\ Goto(u, "restore_start")
              /\ UNCHANGED updRet
           \/ /\ Result(u, "critical")
              /\ UNCHANGED << containers, updLocal >>
    /\ UNCHANGED << updLock, tags, registry, portainer, updArg, updActed, updates >>

\* _handle_update_failure: restored.start(), then raise "Update failed: ...
\* Original container restored."; a failed start raises the CRITICAL error
RestoreStart(u) ==
    /\ updPc[u] = "restore_start"
    /\ LET n == updArg[u].name
       IN  \/ /\ containers[n].state = "stopped"
              /\ containers' = [containers EXCEPT ![n].state = "running"]
              /\ Result(u, "restored")
           \/ /\ Result(u, "critical")
              /\ UNCHANGED containers
    /\ UNCHANGED << updLock, tags, registry, portainer, updArg, updLocal, updActed,
                    updates >>

\* a release that leaves the flock where it is
ContainerLock_release_kept(holder, u) == holder

\* ContainerLock.release: flock(LOCK_UN) and close of the caller's own descriptor
ContainerLock_release(holder, u) == IF holder = u THEN NoProc ELSE holder

\* update(): `finally: lock.release()`, then the result reaches the caller
Release(u) ==
    /\ updPc[u] = "release"
    /\ updLock' = [f \in LockFiles |-> ContainerLock_release(updLock[f], u)]
    /\ Goto(u, "idle")
    /\ updLocal' = [updLocal EXCEPT ![u] = NoLocal]
    /\ updArg' = [updArg EXCEPT ![u] = NoArg]
    /\ UNCHANGED << containers, tags, registry, portainer, updRet, updActed, updates >>

\* update.py, UpdateChecker._pull_image (and auto_updater's pre-pull): another
\* thread pulls a reference, which moves its tag to the registry's image
CheckerPull(r) ==
    /\ tags[r] # registry[r]
    /\ tags' = [tags EXCEPT ![r] = registry[r]]
    /\ UNCHANGED << updLock, containers, registry, portainer, updPc, updArg, updLocal,
                    updRet, updActed, updates >>

\* the updater is inside update(), between acquire and release
Executing(u) == updPc[u] # "idle"

\* the failure that led to the rollback happened after the removal
FailedAfterRemoval(u) ==
    /\ updPc[u] = "release"
    /\ updLocal[u].stage \in {"create", "start"}
    /\ updRet[u] # "success_after_error"

(***************************************************************************)
(* Inventory collection (docker_utils.py discovery, get_data.py            *)
(* get_all_data).  One collection pass: the discovered hosts are fanned    *)
(* out one task per host on a thread pool and the request thread joins     *)
(* the futures.  A container snapshot is (server, name, status).           *)
(***************************************************************************)
\* EnvironmentConfigParser.parse: the order key of a host is int(<n>) of its
\* DOCKER_HOST_<n>_URL variable, so "1" and "01" give two hosts one key
order(h) == h \div 2

\* the engine's answer to containers.list(all=True) on host h, in its order
Enumeration(h) == [i \in 1..NConts |-> NConts + 1 - i]

Snapshot(h, n) == [server |-> h, name |-> n, status |-> "running"]

Placeholder(h, st) == [server |-> h, name |-> 0, status |-> st]

\* list.sort(key=order) appends one more element to a sorted prefix: stable
InsertLast(sorted, h) ==
    LET k == Cardinality({ i \in DOMAIN sorted : order(sorted[i]) <= order(h) })
    IN SubSeq(sorted, 1, k) \o << h >> \o SubSeq(sorted, k + 1, Len(sorted))

RECURSIVE sort_by_order(_)
sort_by_order(hs) ==
    IF hs = << >> THEN << >>
    ELSE InsertLast(sort_by_order(SubSeq(hs, 1, Len(hs) - 1)), hs[Len(hs)])

\* _perform_discovery: the hosts are appended as their connection attempts
\* complete (as_completed) and the list is then sorted by the order key
perform_discovery(completed_order) == sort_by_order(completed_order)

InventoryQuiet ==
    /\ servers = << >>
    /\ hostStatus = [h \in Hosts |-> "inactive"]
    /\ task = [h \in Hosts |-> "done"]
    /\ finished = << >>
    /\ gadPc = "returned"
    /\ gadIdx = 1
    /\ all_container_data = << >>
    /\ server_list_for_json = [h \in Hosts |-> "inactive"]
    /\ timed_out = {}

\* get_all_data up to the submission of the tasks: discovery has answered,
\* server_list_for_json copies the hosts' status, every task is submitted
InventoryInit ==
    /\ \E p \in [1..NHosts -> Hosts] :
          /\ \A i, j \in 1..NHosts : i # j => p[i] # p[j]
          /\ servers = perform_discovery(p)
    /\ hostStatus \in [Hosts -> {"active", "inactive"}]
    /\ task = [h \in Hosts |-> "running"]
    /\ finished = << >>
    /\ gadPc = "collect"
    /\ gadIdx = 1
    /\ all_container_data = << >>
    /\ server_list_for_json = hostStatus
    /\ timed_out = {}

\* the list process_single_host_data returns for a host whose task ended in
\* state st: nothing for an inactive host, one list-error placeholder when
\* containers.list raised, else one snapshot per container as enumerated
process_single_host_data(h, st) ==
    IF hostStatus[h] = "inactive" THEN << >>
    ELSE IF st = "list_error" THEN << Placeholder(h, "list-error") >>
    ELSE [i \in 1..NConts |-> Snapshot(h, Enumeration(h)[i])]

\* the pool thread of host h returns from process_single_host_data
TaskComplete(h) ==
    /\ task[h] = "running"
    /\ \E st \in IF hostStatus[h] = "inactive" THEN {"done"}
                 ELSE {"done", "list_error"} :
          task' = [task EXCEPT ![h] = st]
    /\ finished' = Append(finished, h)
    /\ UNCHANGED << servers, hostStatus, gadPc, gadIdx, all_container_data,
                    server_list_for_json, timed_out >>

\* the engine of host h stops answering: its pool thread blocks for ever
TaskHang(h) ==
    /\ task[h] = "running"
    /\ hostStatus[h] = "active"
    /\ task' = [task EXCEPT ![h] = "hung"]
    /\ UNCHANGED << servers, hostStatus, finished, gadPc, gadIdx,
                    all_container_data, server_list_for_json, timed_out >>

\* a join that takes the futures in the order in which they completed
next_future_as_completed(submitted, i, completed_order) ==
    IF i <= Len(completed_order) THEN completed_order[i] ELSE submitted[i]

\* "for future in future_to_host": the dict yields the futures as submitted
next_future(submitted, i, completed_order) == submitted[i]

Advance ==
    /\ gadIdx' = gadIdx + 1
    /\ gadPc' = IF gadIdx = Len(servers) THEN "shutdown" ELSE "collect"

\* future.result(timeout=HOST_PROCESSING_TIMEOUT) returns the host's list
CollectResult ==
    /\ gadPc = "collect"
    /\ LET h == next_future(servers, gadIdx, finished)
       IN /\ task[h] \in {"done", "list_error"}
          /\ all_container_data' =
                all_container_data \o process_single_host_data(h, task[h])
    /\ Advance
    /\ UNCHANGED << servers, hostStatus, task, finished, server_list_for_json,
                    timed_out >>

\* future.result raises FuturesTimeoutError: the task has not returned yet
CollectTimeout ==
    /\ gadPc = "collect"
    /\ LET h == next_future(servers, gadIdx, finished)
       IN /\ task[h] \in {"running", "hung"}
          /\ server_list_for_json' = [server_list_for_json EXCEPT ![h] = "inactive"]
          /\ all_container_data' =
                Append(all_container_data, Placeholder(h, "host-timeout"))
          /\ timed_out' = timed_out \cup {h}
    /\ Advance
    /\ UNCHANGED << servers, hostStatus, task, finished >>

\* leaving "with ThreadPoolExecutor(...)" calls shutdown(wait=True), which
\* joins every pool thread; get_all_data returns after it
ExecutorShutdown ==
    /\ gadPc = "shutdown"
    /\ \A h \in Hosts : task[h] \in {"done", "list_error"}
    /\ gadPc' = "returned"
    /\ UNCHANGED << servers, hostStatus, task, finished, gadIdx,
                    all_container_data, server_list_for_json, timed_out >>

\* the entries of the returned container list that belong to host h
EntriesOf(h) == SelectSeq(all_container_data, LAMBDA e : e.server = h)

IsPlaceholder(e) == e.status # "running"

(***************************************************************************)
(* Scan-history store (scan_history.py, ScanHistoryDB): the SQLite tables  *)
(* scan_results and fingerprint_history.  Every statement runs on its own  *)
(* connection and SQLite executes it atomically.  A table is the sequence  *)
(* of its rows; the id of a row is its position.                           *)
(***************************************************************************)
Fingerprints == {"", "f1"}
Severities == {"HIGH", "LOW"}
NoRow == [fingerprint |-> ""]
NoCall == [image_digest |-> "", fingerprint |-> ""]

HistoryQuiet ==
    /\ fingerprint_history = << >>
    /\ histNow = 0
    /\ fpPc = [t \in Recorders |-> "idle"]
    /\ fpArg = [t \in Recorders |-> NoCall]
    /\ fpRet = [t \in Recorders |-> "none"]
    /\ firstRow = [d \in Keys, f \in Fingerprints |-> NoRow]
    /\ ignoredRows = {}
    /\ fpCalls = 0
    /\ scan_results = << >>
    /\ trendRet = [direction |-> "none"]

\* the wall clock read by datetime.now()
HistTick ==
    /\ histNow < MaxTime
    /\ histNow' = histNow + 1
    /\ UNCHANGED << fingerprint_history, fpPc, fpArg, fpRet, firstRow, ignoredRows,
                    fpCalls, scan_results, trendRet >>

\* record_fingerprint up to the INSERT: `not fingerprint` and a failing
\* initialize() or connect return False; else the parameter tuple is built,
\* datetime.now().isoformat() included
RecordBegin(t, d, f, sev, ok) ==
    /\ fpPc[t] = "idle"
    /\ fpCalls < MaxRecords
    /\ fpCalls' = fpCalls + 1
    /\ IF f = "" \/ ~ok
         THEN /\ fpRet' = [fpRet EXCEPT ![t] = "False"]
              /\ UNCHANGED << fpPc, fpArg >>
         ELSE /\ fpRet' = [fpRet EXCEPT ![t] = "none"]
              /\ fpPc' = [fpPc EXCEPT ![t] = "insert"]
              /\ fpArg' = [fpArg EXCEPT ![t] =
                              [image_digest |-> d, fingerprint |-> f,
                               cve_id |-> "CVE-1", severity |-> sev,
                               first_seen_at |-> isoformat(histNow)]]
    /\ UNCHANGED << fingerprint_history, histNow, firstRow, ignoredRows,
                    scan_results, trendRet >>

SamePair(r, row) ==
    r.image_digest = row.image_digest /\ r.fingerprint = row.fingerprint

\* an INSERT OR REPLACE: the conflicting row is deleted, the new one added
insert_or_replace(table, row) ==
    Append(SelectSeq(table, LAMBDA r : ~SamePair(r, row)), row)

\* INSERT OR IGNORE under UNIQUE(image_digest, fingerprint)
insert_or_ignore(table, row) ==
    IF \E i \in DOMAIN table : SamePair(table[i], row)
      THEN table
      ELSE Append(table, row)

\* record_fingerprint: conn.execute(INSERT OR IGNORE ...); commit; return True
\* or, when the statement raises (database locked), return False
RecordInsert(t, ok) ==
    /\ fpPc[t] = "insert"
    /\ fpPc' = [fpPc EXCEPT ![t] = "idle"]
    /\ fpArg' = [fpArg EXCEPT ![t] = NoCall]
    /\ IF ok
         THEN /\ fingerprint_history' = insert_or_ignore(fingerprint_history, fpArg[t])
              /\ fpRet' = [fpRet EXCEPT ![t] = "True"]
              /\ IF firstRow[fpArg[t].image_digest, fpArg[t].fingerprint] = NoRow
                   THEN /\ firstRow' = [firstRow EXCEPT
                              ![fpArg[t].image_digest, fpArg[t].fingerprint] = fpArg[t]]
                        /\ UNCHANGED ignoredRows
                   ELSE /\ ignoredRows' = ignoredRows \cup {fpArg[t]}
                        /\ UNCHANGED firstRow
         ELSE /\ fpRet' = [fpRet EXCEPT ![t] = "False"]
              /\ UNCHANGED << fingerprint_history, firstRow, ignoredRows >>
    /\ UNCHANGED << histNow, fpCalls, scan_results, trendRet >>

\* save_scan_result(image, image_digest, scan_timestamp, ..., error): one
\* INSERT INTO scan_results with total = critical + high + medium + low +
\* unknown; a failing initialize() or INSERT returns None and adds nothing
save_scan_result(d, ts, critical, high, error, ok) ==
    /\ Len(scan_results) < MaxRows
    /\ scan_results' =
          IF ok
            THEN Append(scan_results,
                        [image_digest |-> d, scan_timestamp |-> isoformat(ts),
                         critical_count |-> critical, high_count |-> high,
                         total_count |-> critical + high, error |-> error])
            ELSE scan_results
    /\ trendRet' = [direction |-> "none"]
    /\ UNCHANGED << fingerprint_history, histNow, fpPc, fpArg, fpRet, firstRow,
                    ignoredRows, fpCalls >>

\* the rows the query of calculate_trend selects from:
\* WHERE image_digest = ? AND error IS NULL
TrendRows(table, d) ==
    { i \in DOMAIN table : table[i].image_digest = d /\ table[i].error = "NULL" }

\* the ISO texts of one format compare as the instants they denote
NotAfter(table, i, j) ==
    fromisoformat(table[i].scan_timestamp) <= fromisoformat(table[j].scan_timestamp)

\* ORDER BY scan_timestamp DESC LIMIT 2: the answers the engine may give
\* (rows with equal timestamps come in an order SQL does not fix)
newest_two(table, E) ==
    IF E = {} THEN { << >> }
    ELSE IF Cardinality(E) = 1 THEN { << table[i] >> : i \in E }
    ELSE { << table[p[1]], table[p[2]] >> :
             p \in { q \in E \X E :
                       /\ q[1] # q[2]
                       /\ \A k \in E \ {q[1]} : NotAfter(table, k, q[1])
                       /\ \A k \in E \ {q[1], q[2]} : NotAfter(table, k, q[2]) } }

\* a classification with the two signs exchanged
direction_reversed(delta_total) ==
    IF delta_total < 0 THEN "degrading"
    ELSE IF delta_total > 0 THEN "improving" ELSE "stable"

\* calculate_trend: the direction of delta_total
direction_of(delta_total) ==
    IF delta_total < 0 THEN "improving"
    ELSE IF delta_total > 0 THEN "degrading" ELSE "stable"

\* calculate_trend: the TrendData built from the fetched rows
TrendData(rows) ==
    IF Len(rows) < 2
      THEN [direction |-> "unknown", previous_total |-> 0,
            current_total |-> IF Len(rows) = 1 THEN rows[1].total_count ELSE 0,
            scan_count |-> Len(rows)]
      ELSE [direction |-> direction_of(rows[1].total_count - rows[2].total_count),
            previous_total |-> rows[2].total_count,
            current_total |-> rows[1].total_count,
            scan_count |-> Len(rows)]

\* calculate_trend(image_digest); a failing initialize() or query gives
\* TrendData('unknown', 0, 0, 0, 0, 0)
calculate_trend(d, ok) ==
    /\ \E rows \in newest_two(scan_results, TrendRows(scan_results, d)) :
          trendRet' = IF ok
                        THEN [image_digest |-> d, failed |-> FALSE] @@ TrendData(rows)
                        ELSE [image_digest |-> d, failed |-> TRUE,
                              direction |-> "unknown", previous_total |-> 0,
                              current_total |-> 0, scan_count |-> 0]
    /\ UNCHANGED << fingerprint_history, histNow, fpPc, fpArg, fpRet, firstRow,
                    ignoredRows, fpCalls, scan_results >>

(***************************************************************************)
(* API keys (api_keys.py, ApiKeyDB): the SQLite table api_keys.  The id of *)
(* a row is its position.  Clients are the threads that call validate_key. *)
(***************************************************************************)
\* the values secrets.token_hex can return, as whole keys
KeySpace == {"dpk_1", "dpk_2"}
\* expires_in_seconds of a create_key call, in clock ticks
TTLs == {0, 1}

\* hashlib.sha256(plaintext.encode()).hexdigest(): no two keys share a digest
hash_key(plaintext) == << "sha256", plaintext >>

ApiKeysQuiet ==
    /\ api_keys = << >>
    /\ akNow = 0
    /\ issued = {}
    /\ revokedIds = {}
    /\ valPc = [c \in Clients |-> "idle"]
    /\ valArg = [c \in Clients |-> [key |-> ""]]
    /\ valRet = [c \in Clients |-> [result |-> "none"]]

\* the wall clock read by datetime.utcnow()
AkTick ==
    /\ akNow < MaxTime
    /\ akNow' = akNow + 1
    /\ UNCHANGED << api_keys, issued, revokedIds, valPc, valArg, valRet >>

\* create_key(label, expires_in_seconds): the INSERT raises on a key_hash
\* that is already in the table (key_hash TEXT NOT NULL UNIQUE)
create_key(plaintext, ttl) ==
    /\ Len(api_keys) < MaxKeys
    /\ IF \E i \in DOMAIN api_keys : api_keys[i].key_hash = hash_key(plaintext)
         THEN UNCHANGED << api_keys, issued >>
         ELSE /\ api_keys' = Append(api_keys,
                                [key_hash |-> hash_key(plaintext),
                                 expires_at |-> isoformat(akNow + ttl),
                                 last_used_at |-> "NULL",
                                 is_active |-> 1])
              /\ issued' = issued \cup {plaintext}
    /\ UNCHANGED << akNow, revokedIds, valPc, valArg, valRet >>

\* revoke_key(key_id): UPDATE api_keys SET is_active = 0 WHERE id = ?;
\* returns rowcount > 0, or False when the statement raises
revoke_key(key_id, ok) ==
    /\ IF ok /\ key_id \in DOMAIN api_keys
         THEN /\ api_keys' = [api_keys EXCEPT ![key_id].is_active = 0]
              /\ revokedIds' = revokedIds \cup {key_id}
         ELSE UNCHANGED << api_keys, revokedIds >>
    /\ UNCHANGED << akNow, issued, valPc, valArg, valRet >>

\* the rows of a plaintext key
RowsOfKey(plaintext) ==
    { i \in DOMAIN api_keys : api_keys[i].key_hash = hash_key(plaintext) }

\* the key is issued, active and its expiry time has not passed
Live(plaintext) ==
    \E i \in RowsOfKey(plaintext) :
        api_keys[i].is_active = 1 /\ akNow <= fromisoformat(api_keys[i].expires_at)

\* a revoke of the key has returned true, or its expiry time has passed
Dead(plaintext) ==
    \E i \in RowsOfKey(plaintext) :
        i \in revokedIds \/ akNow > fromisoformat(api_keys[i].expires_at)

\* validate_key up to the SELECT: an empty key returns None; else the key is
\* hashed and datetime.utcnow().isoformat() is read
ValidateBegin(c, plaintext) ==
    /\ valPc[c] = "idle"
    /\ IF plaintext = ""
         THEN /\ valRet' = [valRet EXCEPT ![c] =
                              [result |-> "None", key |-> plaintext, live |-> FALSE,
                               dead |-> FALSE, known |-> FALSE, failed |-> FALSE]]
              /\ UNCHANGED << valPc, valArg >>
         ELSE /\ valPc' = [valPc EXCEPT ![c] = "select"]
              /\ valArg' = [valArg EXCEPT ![c] =
                              [key |-> plaintext, now |-> isoformat(akNow),
                               live |-> Live(plaintext), dead |-> Dead(plaintext)]]
              /\ valRet' = [valRet EXCEPT ![c] = [result |-> "none"]]
    /\ UNCHANGED << api_keys, akNow, issued, revokedIds >>

\* a test that no key ever fails
expired_never(expires_at, utcnow) == FALSE

\* row['expires_at'] < now: two ISO texts of one format compare as instants
expired(expires_at, utcnow) ==
    fromisoformat(expires_at) < fromisoformat(utcnow)

\* validate_key from the SELECT on: row is None, not is_active and expired
\* return None; else last_used_at is updated and the key info returned; an
\* exception of the database returns None
ValidateSelect(c, ok) ==
    /\ valPc[c] = "select"
    /\ valPc' = [valPc EXCEPT ![c] = "idle"]
    /\ valArg' = [valArg EXCEPT ![c] = [key |-> ""]]
    /\ LET rows == RowsOfKey(valArg[c].key)
           accepted == /\ ok
                       /\ \E i \in rows :
                             /\ api_keys[i].is_active = 1
                             /\ ~expired(api_keys[i].expires_at, valArg[c].now)
       IN /\ valRet' = [valRet EXCEPT ![c] =
                          [result |-> IF accepted THEN "ok" ELSE "None",
                           key |-> valArg[c].key,
                           live |-> valArg[c].live /\ Live(valArg[c].key),
                           dead |-> valArg[c].dead,
                           known |-> valArg[c].key \in issued,
                           failed |-> ~ok]]
          /\ api_keys' = IF accepted
                           THEN [i \in DOMAIN api_keys |->
                                   IF i \in rows
                                     THEN [api_keys[i] EXCEPT !.last_used_at = valArg[c].now]
                                     ELSE api_keys[i]]
                           ELSE api_keys
    /\ UNCHANGED << akNow, issued, revokedIds >>

(***************************************************************************)
(* Version tags (version_checker.py, VersionParser).  A tag is given by    *)
(* the pieces VERSION_PATTERN looks for: an optional "v", the dot-         *)
(* separated numbers it starts with (none for a tag such as "latest") and  *)
(* the text after the first "-".                                           *)
(***************************************************************************)
TagNumbers == {1, 2021}
TagSuffixes == {"", "beta", "rc"}

NumberLists == UNION { [1..n -> TagNumbers] : n \in 0..MaxParts }

Tags == [v : BOOLEAN, nums : NumberLists, suffix : TagSuffixes]

VersionQuiet ==
    /\ verTags = << >>
    /\ verParsed = << >>
    /\ verCmp = << >>

\* the tags a registry lists for a repository, taken three at a time
VersionInit ==
    /\ verTags \in [1..3 -> Tags]
    /\ verParsed = << >>
    /\ verCmp = << >>

\* VersionParser.is_date_based_version
is_date_based_version(major, minor, patch) ==
    /\ 2019 <= major /\ major <= 2099
    /\ 1 <= minor /\ minor <= 12
    /\ 1 <= patch /\ patch <= 31

\* int(groups[i]) if groups[i] else 0
Group(tag, i) == IF i <= Len(tag.nums) THEN tag.nums[i] ELSE 0

\* VersionParser.parse: None without a match or without a minor number
parse(tag) ==
    IF Len(tag.nums) < 2 THEN None
    ELSE << is_date_based_version(Group(tag, 1), Group(tag, 2), Group(tag, 3)),
            Group(tag, 1), Group(tag, 2), Group(tag, 3), Group(tag, 4), tag.suffix >>

\* VersionParser.compare; the tuple of the code is indexed from 0
compare(v1, v2) ==
    IF v1[1] /\ ~v2[1] THEN 0 - 1
    ELSE IF ~v1[1] /\ v2[1] THEN 1
    ELSE LET differ == { i \in 2..5 : v1[i] # v2[i] }
         IN IF differ # {}
              THEN LET i == CHOOSE k \in differ : \A m \in differ : k <= m
                   IN IF v1[i] < v2[i] THEN 0 - 1 ELSE 1
              ELSE IF v1[6] # "" /\ v2[6] = "" THEN 0 - 1
              ELSE IF v1[6] = "" /\ v2[6] # "" THEN 1
              ELSE 0

\* the tags are parsed and the parseable ones compared with each other
CompareTags ==
    /\ verParsed = << >>
    /\ verParsed' = [i \in 1..3 |-> parse(verTags[i])]
    /\ verCmp' = [i \in 1..3 |-> [j \in 1..3 |->
                     IF parse(verTags[i]) = None \/ parse(verTags[j]) = None
                       THEN None
                       ELSE compare(parse(verTags[i]), parse(verTags[j]))]]
    /\ UNCHANGED verTags

(***************************************************************************)
(* Newer-version selection (version_checker.py, NewVersionChecker.         *)
(* check_for_newer_version from the tag list on).  The suffix of a tag is  *)
(* one of a few texts; Tokens gives the pieces of each text.               *)
(***************************************************************************)
SelectSuffixes == {"", "beta", "alpine", "ls5", "2.0.0-ls5"}

SelectTags == [v : {FALSE}, nums : NumberLists, suffix : SelectSuffixes]

\* the text of a suffix cut at its separators, the separators kept
Tokens(suffix) ==
    CASE suffix = "" -> << >>
      [] suffix = "2.0.0-ls5" -> << "2", ".", "0", ".", "0", "-", "ls5" >>
      [] OTHER -> << suffix >>

Digits == {"0", "2"}

UNSTABLE_INDICATORS ==
    {"develop", "dev", "beta", "alpha", "rc", "nightly", "unstable", "test",
     "snapshot", "canary", "preview", "pre", "edge", "experimental", "trunk",
     "master", "main", "next", "tip", "draft", "staging", "ci", "build", "hotfix"}

PLATFORM_SUFFIXES ==
    {"-windowsservercore", "-nanoserver", "-windows", "-linux", "-alpine",
     "-slim", "-buster", "-bullseye", "-bookworm", "-arm64", "-amd64", "-armhf",
     "-arm32v7", "-arm64v8", "-ltsc2019", "-ltsc2022", "-1809"}

\* is_unstable: a piece of re.split('[-._]', tag) is an indicator (the
\* numbers at the start of the tag are never one)
is_unstable(tag) ==
    \E i \in DOMAIN Tokens(tag.suffix) : Tokens(tag.suffix)[i] \in UNSTABLE_INDICATORS

\* the text "-" + word
Dash(word) ==
    CASE word = "alpine" -> "-alpine"
      [] OTHER -> "-"

\* is_platform_specific: a platform suffix occurs in the tag; in these tags
\* it can only be a "-" followed by a whole piece of the suffix
is_platform_specific(tag) ==
    \E i \in DOMAIN Tokens(tag.suffix) :
        /\ i = 1 \/ Tokens(tag.suffix)[i - 1] = "-"
        /\ Dash(Tokens(tag.suffix)[i]) \in PLATFORM_SUFFIXES

\* re.search(r'\d+\.\d+\.\d+', suffix)
has_compound_version(suffix) ==
    LET t == Tokens(suffix)
    IN \E i \in DOMAIN t :
          /\ i + 4 <= Len(t)
          /\ t[i] \in Digits /\ t[i + 2] \in Digits /\ t[i + 4] \in Digits
          /\ t[i + 1] = "." /\ t[i + 3] = "."

\* a count that takes every tag for a single number
count_version_segments_one(tag) == 1

\* count_version_segments: the dots of the text before the first "-", plus 1
count_version_segments(tag) == (Len(tag.nums) - 1) + 1

\* the loop body of check_for_newer_version: is the tag appended?
Appended(current_tag, tag) ==
    /\ parse(tag) # None
    /\ compare(parse(current_tag), parse(tag)) < 0
    /\ ~(is_unstable(tag) /\ ~is_unstable(current_tag))
    /\ ~(is_platform_specific(tag) /\ ~is_platform_specific(current_tag))
    /\ ~(tag.suffix # "" /\ has_compound_version(tag.suffix))
    /\ ~(count_version_segments(tag) < count_version_segments(current_tag))

\* the tuple of flags and negated numbers the candidates are sorted by
SortKey(tag) ==
    LET ver == parse(tag)
        B(b) == IF b THEN 1 ELSE 0
    IN << B(is_unstable(tag)), B(is_platform_specific(tag)), B(ver[1]),
          0 - ver[2], 0 - ver[3], 0 - ver[4], 0 - ver[5] >>

\* tuple comparison of two sort keys
KeyLess(k1, k2) ==
    \E i \in DOMAIN k1 :
        /\ k1[i] < k2[i]
        /\ \A j \in 1..(i - 1) : k1[j] = k2[j]

\* newer_versions.sort(key=...)[0]: the sort is stable, so the head is the
\* first candidate, in list order, that no candidate precedes by its key
SortedHead(cands) ==
    LET best == { i \in DOMAIN cands :
                    \A j \in DOMAIN cands : ~KeyLess(SortKey(cands[j]), SortKey(cands[i])) }
    IN cands[CHOOSE i \in best : \A j \in best : i <= j]

SelectQuiet ==
    /\ selPc = "returned"
    /\ selCurrent = << >>
    /\ selTags = << >>
    /\ newer_versions = << >>
    /\ selResult = << >>

\* an image with a parseable current tag and the tags its registry lists
SelectInit ==
    /\ selCurrent \in { t \in SelectTags : parse(t) # None }
    /\ selTags \in [1..MaxTags -> SelectTags]
    /\ selPc = "tags"
    /\ newer_versions = << >>
    /\ selResult = << >>

\* check_for_newer_version from "for tag in tags" to the return
SelectNewer ==
    /\ selPc = "tags"
    /\ selPc' = "returned"
    /\ newer_versions' = SelectSeq(selTags, LAMBDA t : Appended(selCurrent, t))
    /\ selResult' = IF Len(newer_versions') = 0 THEN << >>
                    ELSE << SortedHead(newer_versions') >>
    /\ UNCHANGED << selCurrent, selTags >>

(***************************************************************************)
(* The version cache file (version_checker.py, NewVersionChecker): every   *)
(* worker process has a NewVersionChecker and all of them share            *)
(* VERSION_CACHE_FILE.  The outcome of the comparison is an input here.    *)
(***************************************************************************)
\* NewVersionChecker._cache_duration, in clock ticks
VersionCacheDuration == 1

NoVersionEntry == [result |-> "absent", timestamp |-> isoformat(0 - 1)]

\* {} : also what _read_file_cache returns for a missing or unparsable file
EmptyVersionCache == [i \in Images |-> NoVersionEntry]

VersionCacheQuiet ==
    /\ vcFile = EmptyVersionCache
    /\ vcNow = 0
    /\ vcPc = [p \in Checkers |-> "idle"]
    /\ vcCall = [p \in Checkers |-> [image |-> "none"]]
    /\ vcRet = [p \in Checkers |-> "none"]
    /\ vcExpect = [p \in Checkers |-> FALSE]
    /\ vcRequested = [p \in Checkers |-> FALSE]
    /\ vcCompleted = [i \in Images |-> Never]
    /\ vcChecks = 0

\* the wall clock read by datetime.now(); a call that has not yet read the
\* cache for the last time is no longer expected to hit once the TTL is over
VcTick ==
    /\ vcNow < MaxTime
    /\ vcNow' = vcNow + 1
    /\ vcExpect' = [p \in Checkers |->
                      /\ vcExpect[p]
                      /\ vcPc[p] = "cached_none" =>
                            vcNow' - vcCompleted[vcCall[p].image] < VersionCacheDuration]
    /\ UNCHANGED << vcFile, vcPc, vcCall, vcRet, vcRequested, vcCompleted, vcChecks >>

\* _get_from_cache: the entry of the image, if it is in the file and
\* datetime.now() - timestamp < _cache_duration
get_from_cache(image) ==
    IF /\ vcFile[image].result # "absent"
       /\ vcNow - fromisoformat(vcFile[image].timestamp) < VersionCacheDuration
      THEN vcFile[image]
      ELSE NoVersionEntry

\* a comparison of the image has been cached and its entry cannot have expired
VersionCachedFresh(image) ==
    vcCompleted[image] # Never /\ vcNow - vcCompleted[image] < VersionCacheDuration

\* check_for_newer_version: get_cached_version(image) returns a cached
\* VersionInfo, or None for a miss and for a cached negative result
VcBegin(p, image) ==
    /\ vcPc[p] = "idle"
    /\ vcChecks < MaxChecks
    /\ vcChecks' = vcChecks + 1
    /\ vcExpect' = [vcExpect EXCEPT ![p] = VersionCachedFresh(image)]
    /\ vcRequested' = [vcRequested EXCEPT ![p] = FALSE]
    /\ IF get_from_cache(image).result = "newer"
         THEN /\ vcRet' = [vcRet EXCEPT ![p] = "newer"]
              /\ UNCHANGED << vcPc, vcCall >>
         ELSE /\ vcRet' = [vcRet EXCEPT ![p] = "none"]
              /\ vcPc' = [vcPc EXCEPT ![p] = "cached_none"]
              /\ vcCall' = [vcCall EXCEPT ![p] = [image |-> image]]
    /\ UNCHANGED << vcFile, vcNow, vcCompleted >>

\* check_for_newer_version: the second _get_from_cache, for a cached None
VcCachedNone(p) ==
    /\ vcPc[p] = "cached_none"
    /\ IF get_from_cache(vcCall[p].image).result # "absent"
         THEN /\ vcRet' = [vcRet EXCEPT ![p] = get_from_cache(vcCall[p].image).result]
              /\ vcPc' = [vcPc EXCEPT ![p] = "idle"]
              /\ vcCall' = [vcCall EXCEPT ![p] = [image |-> "none"]]
         ELSE /\ vcPc' = [vcPc EXCEPT ![p] = "get_tags"]
              /\ UNCHANGED << vcRet, vcCall >>
    /\ UNCHANGED << vcFile, vcNow, vcExpect, vcRequested, vcCompleted, vcChecks >>

\* check_for_newer_version: self._registry.get_tags(full_image) and the
\* comparison; an empty list returns None, else the outcome is to be cached
VcGetTags(p, answer) ==
    /\ vcPc[p] = "get_tags"
    /\ vcRequested' = [vcRequested EXCEPT ![p] = TRUE]
    /\ IF answer = "empty"
         THEN /\ vcRet' = [vcRet EXCEPT ![p] = "None"]
              /\ vcPc' = [vcPc EXCEPT ![p] = "idle"]
              /\ vcCall' = [vcCall EXCEPT ![p] = [image |-> "none"]]
         ELSE /\ vcPc' = [vcPc EXCEPT ![p] = "set"]
              /\ vcCall' = [vcCall EXCEPT ![p] = [image |-> vcCall[p].image,
                                                  result |-> answer]]
              /\ UNCHANGED vcRet
    /\ UNCHANGED << vcFile, vcNow, vcExpect, vcCompleted, vcChecks >>

\* _set_in_cache: cache = self._read_file_cache(); cache[image] = {...}
VcSetRead(p) ==
    /\ vcPc[p] = "set"
    /\ vcPc' = [vcPc EXCEPT ![p] = "open"]
    /\ vcCall' = [vcCall EXCEPT ![p] =
                    [image |-> vcCall[p].image, result |-> vcCall[p].result,
                     cache |-> [vcFile EXCEPT ![vcCall[p].image] =
                                  [result |-> vcCall[p].result,
                                   timestamp |-> isoformat(vcNow)]]]]
    /\ UNCHANGED << vcFile, vcNow, vcRet, vcExpect, vcRequested, vcCompleted,
                    vcChecks >>

\* _write_file_cache: open(self._cache_file, 'w') empties the file
VcSetOpen(p) ==
    /\ vcPc[p] = "open"
    /\ vcPc' = [vcPc EXCEPT ![p] = "dump"]
    /\ vcFile' = EmptyVersionCache
    /\ UNCHANGED << vcNow, vcCall, vcRet, vcExpect, vcRequested, vcCompleted,
                    vcChecks >>

\* _write_file_cache: flock(LOCK_EX), json.dump(cache, f), unlock, close;
\* check_for_newer_version returns the result
VcSetDump(p) ==
    /\ vcPc[p] = "dump"
    /\ vcFile' = vcCall[p].cache
    /\ vcCompleted' = [vcCompleted EXCEPT ![vcCall[p].image] =
                          fromisoformat(vcCall[p].cache[vcCall[p].image].timestamp)]
    /\ vcRet' = [vcRet EXCEPT ![p] = vcCall[p].result]
    /\ vcPc' = [vcPc EXCEPT ![p] = "idle"]
    /\ vcCall' = [vcCall EXCEPT ![p] = [image |-> "none"]]
    /\ UNCHANGED << vcNow, vcExpect, vcRequested, vcChecks >>


(***************************************************************************)
(* Update checker: cooperative cancellation of update checks.  One worker  *)
(* process owns one update_checker and so one CancellationToken; every     *)
(* request thread of the worker polls and sets that token.  Each poll,     *)
(* cancel and reset takes the token's lock, so each is one step.  The      *)
(* update cache is read and written as a whole here; the races of its file *)
(* are those of the file cache above.  The containers of the one host are  *)
(* 1..NConts, visited in that order.                                       *)
(***************************************************************************)

NoHist == [seen |-> FALSE, late |-> FALSE, pullInWindow |-> FALSE,
           trueInWindow |-> FALSE, reportInWindow |-> FALSE,
           begunInWindow |-> FALSE, enteredInWindow |-> FALSE]

UpdateCheckQuiet ==
    /\ cancelled = FALSE
    /\ ucPc = [r \in Requests |-> "idle"]
    /\ ucIdx = [r \in Requests |-> 0]
    /\ was_cancelled = [r \in Requests |-> FALSE]
    /\ ucResult = [r \in Requests |-> FALSE]
    /\ ucPulled = [r \in Requests |-> "none"]
    /\ updateCache = [c \in 1..NConts |-> << >>]
    /\ ucHist = [r \in Requests |-> NoHist]

UcHistSet(r, h) == ucHist' = [ucHist EXCEPT ![r] = h]

is_cancelled_never == FALSE

\* CancellationToken.is_cancelled
is_cancelled == cancelled

\* POST /cancel-updates: update_checker.cancel_check()
cancel_updates ==
    /\ cancelled' = TRUE
    /\ UNCHANGED << ucPc, ucIdx, was_cancelled, ucResult, ucPulled, updateCache, ucHist >>

\* an entry of the update cache passes its 120 seconds, or the cache is cleared
UpdateCacheExpire(c) ==
    /\ updateCache[c] # << >>
    /\ updateCache' = [updateCache EXCEPT ![c] = << >>]
    /\ UNCHANGED << cancelled, ucPc, ucIdx, was_cancelled, ucResult, ucPulled, ucHist >>

\* check_updates: start_check() resets the shared token
CheckUpdatesStart(r) ==
    /\ ucPc[r] \in {"idle", "done"}
    /\ cancelled' = FALSE
    /\ ucPc' = [ucPc EXCEPT ![r] = "server"]
    /\ ucIdx' = [ucIdx EXCEPT ![r] = 0]
    /\ was_cancelled' = [was_cancelled EXCEPT ![r] = FALSE]
    /\ ucResult' = [ucResult EXCEPT ![r] = FALSE]
    /\ ucPulled' = [ucPulled EXCEPT ![r] = "none"]
    /\ UcHistSet(r, NoHist)
    /\ UNCHANGED updateCache

\* check_updates: the poll at the head of the loop over the servers
CheckUpdatesServer(r) ==
    /\ ucPc[r] = "server"
    /\ IF is_cancelled
          THEN /\ was_cancelled' = [was_cancelled EXCEPT ![r] = TRUE]
               /\ ucPc' = [ucPc EXCEPT ![r] = "report"]
          ELSE /\ ucPc' = [ucPc EXCEPT ![r] = "container"]
               /\ UNCHANGED was_cancelled
    /\ UNCHANGED << cancelled, ucIdx, ucResult, ucPulled, updateCache, ucHist >>

\* check_updates: the next container of the loop, polled before it is counted
CheckUpdatesContainer(r) ==
    /\ ucPc[r] = "container"
    /\ IF ucIdx[r] = NConts
          THEN /\ ucPc' = [ucPc EXCEPT ![r] = "report"]
               /\ UNCHANGED << ucIdx, was_cancelled, ucHist >>
          ELSE IF is_cancelled
                  THEN /\ was_cancelled' = [was_cancelled EXCEPT ![r] = TRUE]
                       /\ ucPc' = [ucPc EXCEPT ![r] = "report"]
                       /\ UNCHANGED << ucIdx, ucHist >>
                  ELSE /\ ucIdx' = [ucIdx EXCEPT ![r] = @ + 1]
                       /\ ucPc' = [ucPc EXCEPT ![r] = "enter"]
                       /\ UcHistSet(r, [ucHist[r] EXCEPT
                                           !.seen = FALSE, !.late = FALSE,
                                           !.enteredInWindow = FALSE,
                                           !.begunInWindow = @ \/ cancelled])
                       /\ UNCHANGED was_cancelled
    /\ UNCHANGED << cancelled, ucResult, ucPulled, updateCache >>

\* check_image_updates: the poll on entry
CheckImageUpdatesEnter(r) ==
    /\ ucPc[r] = "enter"
    /\ IF is_cancelled
          THEN /\ ucResult' = [ucResult EXCEPT ![r] = FALSE]
               /\ ucPc' = [ucPc EXCEPT ![r] = "after"]
          ELSE /\ ucPc' = [ucPc EXCEPT ![r] = "cache"]
               /\ UNCHANGED ucResult
    /\ UcHistSet(r, [ucHist[r] EXCEPT !.seen = @ \/ cancelled,
                                      !.enteredInWindow = cancelled])
    /\ UNCHANGED << cancelled, ucIdx, was_cancelled, ucPulled, updateCache >>

\* check_image_updates: a valid cached decision is returned as it is
CheckImageUpdatesCache(r) ==
    /\ ucPc[r] = "cache"
    /\ IF updateCache[ucIdx[r]] # << >>
          THEN /\ ucResult' = [ucResult EXCEPT ![r] = updateCache[ucIdx[r]][1]]
               /\ ucPc' = [ucPc EXCEPT ![r] = "after"]
               /\ UcHistSet(r, [ucHist[r] EXCEPT
                                   !.trueInWindow = @ \/ (cancelled /\ updateCache[ucIdx[r]][1])])
          ELSE /\ ucPc' = [ucPc EXCEPT ![r] = "before_pull"]
               /\ UNCHANGED << ucResult, ucHist >>
    /\ UNCHANGED << cancelled, ucIdx, was_cancelled, ucPulled, updateCache >>

\* check_image_updates: the poll before the pull
CheckImageUpdatesBeforePull(r) ==
    /\ ucPc[r] = "before_pull"
    /\ IF is_cancelled
          THEN /\ ucResult' = [ucResult EXCEPT ![r] = FALSE]
               /\ ucPc' = [ucPc EXCEPT ![r] = "after"]
          ELSE /\ ucPc' = [ucPc EXCEPT ![r] = "submit"]
               /\ UNCHANGED ucResult
    /\ UcHistSet(r, [ucHist[r] EXCEPT !.seen = @ \/ cancelled])
    /\ UNCHANGED << cancelled, ucIdx, was_cancelled, ucPulled, updateCache >>

\* _pull_and_compare: the pull is handed to the executor
PullAndCompareSubmit(r) ==
    /\ ucPc[r] = "submit"
    /\ ucPc' = [ucPc EXCEPT ![r] = "pulling"]
    /\ UcHistSet(r, [ucHist[r] EXCEPT !.late = @ \/ ucHist[r].seen,
                                      !.pullInWindow = @ \/ cancelled])
    /\ UNCHANGED << cancelled, ucIdx, was_cancelled, ucResult, ucPulled, updateCache >>

PullOutcomes == {"newer", "same", "timeout", "error"}

\* _pull_and_compare: future.result(timeout): the pull ends, fails or times out
PullAndCompareResult(r, outcome) ==
    /\ ucPc[r] = "pulling"
    /\ ucPulled' = [ucPulled EXCEPT ![r] = outcome]
    /\ IF outcome \in {"timeout", "error"}
          THEN /\ ucResult' = [ucResult EXCEPT ![r] = FALSE]
               /\ ucPc' = [ucPc EXCEPT ![r] = "store"]
          ELSE /\ ucPc' = [ucPc EXCEPT ![r] = "after_pull"]
               /\ UNCHANGED ucResult
    /\ UNCHANGED << cancelled, ucIdx, was_cancelled, updateCache, ucHist >>

\* _pull_and_compare: the poll after the pull, then the comparison of the ids
PullAndCompareAfterPull(r) ==
    /\ ucPc[r] = "after_pull"
    /\ ucResult' = [ucResult EXCEPT ![r] =
                       IF is_cancelled THEN FALSE ELSE ucPulled[r] = "newer"]
    /\ ucPc' = [ucPc EXCEPT ![r] = "store"]
    /\ UcHistSet(r, [ucHist[r] EXCEPT !.seen = @ \/ cancelled])
    /\ UNCHANGED << cancelled, ucIdx, was_cancelled, ucPulled, updateCache >>

\* check_image_updates: set_cache_result(cache_key, result); return result
CheckImageUpdatesStore(r) ==
    /\ ucPc[r] = "store"
    /\ updateCache' = [updateCache EXCEPT ![ucIdx[r]] = << ucResult[r] >>]
    /\ ucPc' = [ucPc EXCEPT ![r] = "after"]
    /\ UcHistSet(r, [ucHist[r] EXCEPT !.trueInWindow = @ \/ (cancelled /\ ucResult[r])])
    /\ UNCHANGED << cancelled, ucIdx, was_cancelled, ucResult, ucPulled >>

\* check_updates: updates[key] = update_available, then the poll after the check
CheckUpdatesAfter(r) ==
    /\ ucPc[r] = "after"
    /\ IF is_cancelled
          THEN /\ was_cancelled' = [was_cancelled EXCEPT ![r] = TRUE]
               /\ ucPc' = [ucPc EXCEPT ![r] = "report"]
          ELSE /\ ucPc' = [ucPc EXCEPT ![r] = "container"]
               /\ UNCHANGED was_cancelled
    /\ UNCHANGED << cancelled, ucIdx, ucResult, ucPulled, updateCache, ucHist >>

\* check_updates: the response carries "cancelled": was_cancelled
CheckUpdatesReport(r) ==
    /\ ucPc[r] = "report"
    /\ ucPc' = [ucPc EXCEPT ![r] = "done"]
    /\ UcHistSet(r, [ucHist[r] EXCEPT !.reportInWindow = cancelled /\ ~was_cancelled[r]])
    /\ UNCHANGED << cancelled, ucIdx, was_cancelled, ucResult, ucPulled, updateCache >>


(***************************************************************************)
(* Trivy results: normalization of a response into a ScanResult and its    *)
(* journey through the scan cache.  A finding is kept by its "Severity" as *)
(* the scanner wrote it; "missing" is a finding without the key and "null" *)
(* one whose "Severity" is null.                                           *)
(***************************************************************************)

SeverityInputs == {"CRITICAL", "high", "MEDIUM", "LOW", "NEGLIGIBLE", "missing", "null"}

FindingLists == UNION { [1..n -> SeverityInputs] : n \in 0..MaxFindings }

Responses == UNION { [1..n -> FindingLists] : n \in 0..MaxResults }

\* str.upper on the severities above
upper(word) == IF word = "high" THEN "HIGH" ELSE word

\* v.get('Severity', 'UNKNOWN').upper()
severity_of(finding) == upper(IF finding = "missing" THEN "UNKNOWN" ELSE finding)

VulnerabilitySummary == [critical |-> 0, high |-> 0, medium |-> 0, low |-> 0, unknown |-> 0]

\* VulnerabilitySummary.total
total(summary) ==
    summary.critical + summary.high + summary.medium + summary.low + summary.unknown

NoScanResult == [vulnerabilities |-> << >>, summary |-> VulnerabilitySummary]

NoCacheDict == [vulnerabilities |-> << >>,
                summary |-> [critical |-> 0, high |-> 0, medium |-> 0, low |-> 0,
                             unknown |-> 0, total |-> 0]]

NormalizeQuiet ==
    /\ trivy_response = << >>
    /\ nrPc = "restored"
    /\ normalized = NoScanResult
    /\ cache_dict = NoCacheDict
    /\ restored = NoScanResult

NormalizeInit ==
    /\ trivy_response \in Responses
    /\ nrPc = "response"
    /\ normalized = NoScanResult
    /\ cache_dict = NoCacheDict
    /\ restored = NoScanResult

RECURSIVE Flatten(_)
\* the findings of all entries in the order the two loops visit them
Flatten(results) ==
    IF results = << >> THEN << >> ELSE Head(results) \o Flatten(Tail(results))

bucket_without_unknown(severity) ==
    CASE severity = "CRITICAL" -> "critical"
      [] severity = "HIGH" -> "high"
      [] severity = "MEDIUM" -> "medium"
      [] OTHER -> "low"

\* the if/elif chain that picks the counter of a finding
bucket(severity) ==
    CASE severity = "CRITICAL" -> "critical"
      [] severity = "HIGH" -> "high"
      [] severity = "MEDIUM" -> "medium"
      [] severity = "LOW" -> "low"
      [] OTHER -> "unknown"

RECURSIVE Count(_, _)
\* the summary after the findings so far
Count(findings, summary) ==
    IF findings = << >> THEN summary
    ELSE Count(Tail(findings),
               [summary EXCEPT ![bucket(severity_of(Head(findings)))] = @ + 1])

\* _normalize_response; upper() of a null severity raises and no ScanResult is made
normalize_response ==
    /\ nrPc = "response"
    /\ LET findings == Flatten(trivy_response)
       IN  IF \E i \in 1..Len(findings) : findings[i] = "null"
              THEN /\ nrPc' = "raised"
                   /\ UNCHANGED normalized
              ELSE /\ nrPc' = "normalized"
                   /\ normalized' =
                         [vulnerabilities |->
                              [i \in 1..Len(findings) |->
                                  [cve_id |-> i, severity |-> severity_of(findings[i])]],
                          summary |-> Count(findings, VulnerabilitySummary)]
    /\ UNCHANGED << trivy_response, cache_dict, restored >>

\* Vulnerability.to_dict
vulnerability_to_dict(v) ==
    [vulnerability_id |-> v.cve_id, cve_id |-> v.cve_id, severity |-> v.severity]

\* VulnerabilitySummary.to_dict
summary_to_dict(summary) ==
    [critical |-> summary.critical, high |-> summary.high, medium |-> summary.medium,
     low |-> summary.low, unknown |-> summary.unknown, total |-> total(summary)]

\* _serialize_scan_result
serialize_scan_result ==
    /\ nrPc = "normalized"
    /\ nrPc' = "cached"
    /\ cache_dict' =
          [vulnerabilities |->
               [i \in 1..Len(normalized.vulnerabilities) |->
                   vulnerability_to_dict(normalized.vulnerabilities[i])],
           summary |-> summary_to_dict(normalized.summary)]
    /\ UNCHANGED << trivy_response, normalized, restored >>

\* _deserialize_scan_result
deserialize_scan_result ==
    /\ nrPc = "cached"
    /\ nrPc' = "restored"
    /\ restored' =
          [vulnerabilities |->
               [i \in 1..Len(cache_dict.vulnerabilities) |->
                   [cve_id |-> cache_dict.vulnerabilities[i].cve_id,
                    severity |-> cache_dict.vulnerabilities[i].severity]],
           summary |-> [critical |-> cache_dict.summary.critical,
                        high |-> cache_dict.summary.high,
                        medium |-> cache_dict.summary.medium,
                        low |-> cache_dict.summary.low,
                        unknown |-> cache_dict.summary.unknown]]
    /\ UNCHANGED << trivy_response, normalized, cache_dict >>


(***************************************************************************)
(* Auto-updater journal: _append_history.  The file is opened in mode      *)
(* 'a+', so every write lands at the end of the file.  json.dump writes    *)
(* into the buffer of f; truncate() flushes, and so does the close at the  *)
(* end of the with block, which comes after the finally clause that        *)
(* releases the lock.  The file is kept as the sequence of JSON documents  *)
(* in it; a record is a number, given out in the order of the calls.       *)
(***************************************************************************)

JournalQuiet ==
    /\ history_file = << >>
    /\ jrLock = 0
    /\ jrPc = [p \in Appenders |-> "idle"]
    /\ jrRecord = [p \in Appenders |-> 0]
    /\ jrRecords = [p \in Appenders |-> << >>]
    /\ jrBuffer = [p \in Appenders |-> << >>]
    /\ jrOrder = << >>
    /\ jrReturned = {}

\* json.load(f): one document is a list; none, or several in a row, raise
\* JSONDecodeError and the caller goes on with []
json_load(file) == IF Len(file) = 1 THEN file[1] ELSE << >>

\* records[-500:]
last_records(records) ==
    IF Len(records) > HistoryLimit
       THEN SubSeq(records, Len(records) - HistoryLimit + 1, Len(records))
       ELSE records

\* _append_history is called; open(self._history_file, 'a+')
AppendOpen(p) ==
    /\ jrPc[p] = "idle"
    /\ Len(jrOrder) + Cardinality({q \in Appenders : jrPc[q] \in {"flock", "load"}}) < MaxAppends
    /\ jrPc' = [jrPc EXCEPT ![p] = "flock"]
    /\ UNCHANGED << history_file, jrLock, jrRecord, jrRecords, jrBuffer, jrOrder, jrReturned >>

\* fcntl.flock(f.fileno(), fcntl.LOCK_EX)
AppendFlock(p) ==
    /\ jrPc[p] = "flock"
    /\ jrLock = 0
    /\ jrLock' = p
    /\ jrPc' = [jrPc EXCEPT ![p] = "load"]
    /\ UNCHANGED << history_file, jrRecord, jrRecords, jrBuffer, jrOrder, jrReturned >>

\* f.seek(0); records = json.load(f); records.append(record); records[-500:]
AppendLoad(p) ==
    /\ jrPc[p] = "load"
    /\ LET record == Len(jrOrder) + 1
       IN  /\ jrRecord' = [jrRecord EXCEPT ![p] = record]
           /\ jrRecords' = [jrRecords EXCEPT
                               ![p] = last_records(Append(json_load(history_file), record))]
           /\ jrOrder' = Append(jrOrder, record)
    /\ jrPc' = [jrPc EXCEPT ![p] = "truncate"]
    /\ UNCHANGED << history_file, jrLock, jrBuffer, jrReturned >>

\* f.seek(0); f.truncate(); json.dump(records, f, indent=2)
AppendTruncateDump(p) ==
    /\ jrPc[p] = "truncate"
    /\ history_file' = << >>
    /\ jrBuffer' = [jrBuffer EXCEPT ![p] = << jrRecords[p] >>]
    /\ jrPc' = [jrPc EXCEPT ![p] = "unlock"]
    /\ UNCHANGED << jrLock, jrRecord, jrRecords, jrOrder, jrReturned >>

\* finally: fcntl.flock(f.fileno(), fcntl.LOCK_UN)
AppendUnlock(p) ==
    /\ jrPc[p] = "unlock"
    /\ jrLock' = 0
    /\ jrPc' = [jrPc EXCEPT ![p] = "close"]
    /\ UNCHANGED << history_file, jrRecord, jrRecords, jrBuffer, jrOrder, jrReturned >>

\* the with block closes f: the buffer is written at the end of the file
AppendClose(p) ==
    /\ jrPc[p] = "close"
    /\ history_file' = history_file \o jrBuffer[p]
    /\ jrBuffer' = [jrBuffer EXCEPT ![p] = << >>]
    /\ jrReturned' = jrReturned \cup {jrRecord[p]}
    /\ jrPc' = [jrPc EXCEPT ![p] = "idle"]
    /\ UNCHANGED << jrLock, jrRecord, jrRecords, jrOrder >>


(***************************************************************************)
(* Container status: ContainerStatusExtractor.get_status_with_exit_code.   *)
(* An observation is the container's status, the Status of its Health      *)
(* block ("none" without one), its ExitCode, the thread that calls, and    *)
(* what fails: "alarm" is SIGALRM arriving during the reads, "attrs" is    *)
(* container.attrs raising while container.status can be read, "status"    *)
(* is container.status raising every time.                                 *)
(***************************************************************************)

BaseStatuses == {"running", "exited", "dead", "paused", "restarting", "removing", "created"}

HealthStatuses == {"none", "healthy", "unhealthy", "starting"}

ExitCodes == {0, 137}

NoExitCode == 0 - 1

Threads == {"main", "worker"}

Failures == {"no", "alarm", "attrs", "status"}

\* signal.alarm is armed only if signal.signal did not raise, so only there
\* can the alarm go off
Observations ==
    { o \in [status : BaseStatuses, health : HealthStatuses, exit_code : ExitCodes,
             thread : Threads, fails : Failures] :
          o.fails = "alarm" => o.thread = "main" }

StatusQuiet ==
    /\ observation = [status |-> "running", health |-> "none", exit_code |-> 0,
                      thread |-> "main", fails |-> "no"]
    /\ stPc = "returned"
    /\ stRet = << "running", NoExitCode >>

StatusInit ==
    /\ observation \in Observations
    /\ stPc = "called"
    /\ stRet = << "", NoExitCode >>

\* the inner try block: the mapping of status and health
status_of(o) ==
    IF o.status \in {"exited", "dead"} THEN << o.status, o.exit_code >>
    ELSE IF o.status \in {"paused", "restarting", "removing", "created"}
            THEN << o.status, NoExitCode >>
    ELSE IF o.status = "running"
            THEN IF o.health = "healthy" THEN << "healthy", NoExitCode >>
                 ELSE IF o.health = "unhealthy" THEN << "unhealthy", o.exit_code >>
                 ELSE IF o.health = "starting" THEN << "starting", NoExitCode >>
                 ELSE << "running", NoExitCode >>
    ELSE << o.status, NoExitCode >>

\* except Exception: return container.status, None; 'error' if that raises too
status_after_exception(o) ==
    IF o.fails = "status" THEN << "error", NoExitCode >> ELSE << o.status, NoExitCode >>

\* signal.signal raises ValueError outside the main thread, before the reads
get_status_with_exit_code ==
    /\ stPc = "called"
    /\ stPc' = "returned"
    /\ stRet' = IF observation.thread # "main" THEN status_after_exception(observation)
                ELSE IF observation.fails = "alarm" THEN << "timeout", NoExitCode >>
                ELSE IF observation.fails \in {"attrs", "status"}
                        THEN status_after_exception(observation)
                ELSE status_of(observation)
    /\ UNCHANGED observation


(***************************************************************************)
(* Host discovery from the environment: EnvironmentConfigParser and        *)
(* DockerClientDiscovery._perform_discovery.  DOCKER_HOST is set; a        *)
(* numbered endpoint is the digit string of its DOCKER_HOST_<n>_URL        *)
(* variable, and its setting is "absent" without that variable, else the   *)
(* stripped value of DOCKER_HOST_<n>_NAME ("" when unset or blank).        *)
(***************************************************************************)

\* digit strings of numbered variables, in the order sorted() gives their keys
Nums == << "01", "0", "1" >>

NameSettings == {"", "default", "alpha"}

\* int(num)
int(num) == IF num = "0" THEN 0 ELSE 1

\* str(order) inside f"server{config.order}"
str(n) == IF n = 0 THEN "0" ELSE "1"

\* f"server{num}", kept as a pair; a plain name is a one-element sequence
server(num) == << "server", num >>

\* the name Docker's info() gives, the same engine behind every endpoint here
ApiName == << "node1" >>

DiscoveryQuiet ==
    /\ environ = [main |-> "", numbered |-> [i \in 1..Len(Nums) |-> "absent"]]
    /\ dcPc = "returned"
    /\ configs = << >>
    /\ dcPending = {}
    /\ dcHosts = << >>

DiscoveryInit ==
    /\ environ \in [main : {"", "alpha"},
                    numbered : [1..Len(Nums) -> NameSettings \cup {"absent"}]]
    /\ dcPc = "environ"
    /\ configs = << >>
    /\ dcPending = {}
    /\ dcHosts = << >>

\* _parse_main_host
parse_main_host ==
    [name |-> IF environ.main = "" THEN << "default" >> ELSE << environ.main >>,
     order |-> 0, num |-> "", is_docker_host |-> TRUE]

RECURSIVE parse_numbered_hosts(_)
\* _parse_numbered_hosts, from the i-th key of the sorted keys on
parse_numbered_hosts(i) ==
    IF i > Len(Nums) THEN << >>
    ELSE IF environ.numbered[i] = "absent" THEN parse_numbered_hosts(i + 1)
    ELSE << [name |-> IF environ.numbered[i] = "" THEN server(Nums[i])
                      ELSE << environ.numbered[i] >>,
             order |-> int(Nums[i]), num |-> Nums[i], is_docker_host |-> FALSE] >>
         \o parse_numbered_hosts(i + 1)

\* EnvironmentConfigParser.parse, and the submit of one task per config
parse_environment ==
    /\ dcPc = "environ"
    /\ configs' = << parse_main_host >> \o parse_numbered_hosts(1)
    /\ dcPending' = 1..Len(configs')
    /\ dcPc' = "configs"
    /\ UNCHANGED << environ, dcHosts >>

\* _create_inactive_host
create_inactive_host(config) ==
    [name |-> config.name, order |-> config.order, status |-> "inactive"]

\* _create_host_from_config with the endpoint's answer
create_host_from_config(config, connected, api_name) ==
    IF ~connected THEN create_inactive_host(config)
    ELSE [name |-> IF /\ config.name \in {server(str(config.order)), << "default" >>}
                       /\ config.order > 0
                       /\ api_name
                    THEN ApiName ELSE config.name,
          order |-> config.order, status |-> "active"]

\* as_completed yields the future of config i; its host is appended
HostCompleted(i, connected, api_name) ==
    /\ dcPc = "configs"
    /\ i \in dcPending
    /\ dcPending' = dcPending \ {i}
    /\ dcHosts' = Append(dcHosts, create_host_from_config(configs[i], connected, api_name))
    /\ UNCHANGED << environ, dcPc, configs >>

\* position of a host in the sorted list: list.sort is stable
Rank(hs, i) ==
    Cardinality({ j \in 1..Len(hs) :
                     \/ hs[j].order < hs[i].order
                     \/ hs[j].order = hs[i].order /\ j <= i })

\* hosts.sort(key=lambda h: h.order)
sorted_by_order(hs) ==
    [k \in 1..Len(hs) |-> hs[CHOOSE i \in 1..Len(hs) : Rank(hs, i) = k]]

\* _perform_discovery returns the sorted list
DiscoveryReturn ==
    /\ dcPc = "configs"
    /\ dcPending = {}
    /\ dcHosts' = sorted_by_order(dcHosts)
    /\ dcPc' = "returned"
    /\ UNCHANGED << environ, configs, dcPending >>


(***************************************************************************)
(* Dependents of an update target: the tail of _do_update and              *)
(* _recreate_container.  The target had id "T1"; a replaced target has id  *)
(* "T2".  Every call to the engine (stop, rename, create, start, remove)   *)
(* either takes effect or raises.                                          *)
(***************************************************************************)

NetworkModes == { << "container", "T1" >>, << "container", "target" >> }

NoNew == [state |-> "none", network_mode |-> << "none", "" >>]

DependentsQuiet ==
    /\ dpPhase = "returned"
    /\ dpStatus = "error"
    /\ dpTargetId = "T1"
    /\ dpMode = [d \in Dependents |-> << "container", "target" >>]
    /\ dpPc = [d \in Dependents |-> "waiting"]
    /\ dpOrig = [d \in Dependents |-> [name |-> "own", state |-> "running"]]
    /\ dpNew = [d \in Dependents |-> NoNew]
    /\ dpRet = [d \in Dependents |-> "none"]
    /\ failed_recreates = {}

\* _get_dependent_containers has found the dependents; _perform_update is next
DependentsInit ==
    /\ dpPhase = "update"
    /\ dpStatus = "none"
    /\ dpTargetId = "T1"
    /\ dpMode \in [Dependents -> NetworkModes]
    /\ dpPc = [d \in Dependents |-> "waiting"]
    /\ dpOrig = [d \in Dependents |-> [name |-> "own", state |-> "running"]]
    /\ dpNew = [d \in Dependents |-> NoNew]
    /\ dpRet = [d \in Dependents |-> "none"]
    /\ failed_recreates = {}

\* _perform_update returns success (the target replaced, or found running in
\* the except clause) or raises
PerformUpdateEnds(outcome) ==
    /\ dpPhase = "update"
    /\ dpStatus' = IF outcome = "raised" THEN "error" ELSE "success"
    /\ dpTargetId' = IF outcome = "replaced" THEN "T2" ELSE "T1"
    /\ dpPhase' = IF outcome = "raised" THEN "returned" ELSE "dependents"
    /\ UNCHANGED << dpMode, dpPc, dpOrig, dpNew, dpRet, failed_recreates >>

\* the dependent the loop of _do_update is at
Current(d) ==
    /\ dpPhase = "dependents"
    /\ \A e \in Dependents : e < d => dpRet[e] # "none"
    /\ dpRet[d] = "none"

DpGoto(d, pc) == dpPc' = [dpPc EXCEPT ![d] = pc]

\* _recreate_container returns; a False puts the dependent in failed_recreates
DpReturn(d, value) ==
    /\ dpRet' = [dpRet EXCEPT ![d] = value]
    /\ DpGoto(d, "returned")
    /\ failed_recreates' = IF value = "False" THEN failed_recreates \cup {d}
                           ELSE failed_recreates

\* config['network_mode'] = f'container:{new_network_container_id}'
network_mode(mode, new_network_container_id) ==
    IF mode[1] = "container" THEN << "container", new_network_container_id >> ELSE mode

\* _do_update: `if result["status"] == "success" and dependent_containers`,
\* new_container_id, and the call of _recreate_container for the dependent
RecreateCall(d) ==
    /\ Current(d)
    /\ dpPc[d] = "waiting"
    /\ DpGoto(d, "stop")
    /\ UNCHANGED << dpPhase, dpStatus, dpTargetId, dpMode, dpOrig, dpNew, dpRet,
                    failed_recreates >>

\* _stop_container(container); a raise goes to the outer except clause
RecreateStop(d, ok) ==
    /\ dpPc[d] = "stop"
    /\ IF ok THEN /\ dpOrig' = [dpOrig EXCEPT ![d].state = "stopped"]
                  /\ DpGoto(d, "rename")
                  /\ UNCHANGED << dpRet, failed_recreates >>
             ELSE /\ DpReturn(d, "False")
                  /\ UNCHANGED dpOrig
    /\ UNCHANGED << dpPhase, dpStatus, dpTargetId, dpMode, dpNew >>

\* container.rename(temp_name); a raise goes to the outer except clause
RecreateRename(d, ok) ==
    /\ dpPc[d] = "rename"
    /\ IF ok THEN /\ dpOrig' = [dpOrig EXCEPT ![d].name = "temp"]
                  /\ DpGoto(d, "create")
                  /\ UNCHANGED << dpRet, failed_recreates >>
             ELSE /\ DpReturn(d, "False")
                  /\ UNCHANGED dpOrig
    /\ UNCHANGED << dpPhase, dpStatus, dpTargetId, dpMode, dpNew >>

\* containers.create(current_image, **config) and _connect_networks
RecreateCreate(d, ok) ==
    /\ dpPc[d] = "create"
    /\ IF ok THEN /\ dpNew' = [dpNew EXCEPT
                                 ![d] = [state |-> "stopped",
                                         network_mode |-> network_mode(dpMode[d], dpTargetId)]]
                  /\ DpGoto(d, "start")
             ELSE /\ DpGoto(d, "undo_remove")
                  /\ UNCHANGED dpNew
    /\ UNCHANGED << dpPhase, dpStatus, dpTargetId, dpMode, dpOrig, dpRet, failed_recreates >>

\* new_container.start(), reload, and the check that it is running
RecreateStart(d, ok) ==
    /\ dpPc[d] = "start"
    /\ IF ok THEN /\ dpNew' = [dpNew EXCEPT ![d].state = "running"]
                  /\ DpGoto(d, "remove_temp")
             ELSE /\ DpGoto(d, "undo_remove")
                  /\ UNCHANGED dpNew
    /\ UNCHANGED << dpPhase, dpStatus, dpTargetId, dpMode, dpOrig, dpRet, failed_recreates >>

\* containers.get(temp_name).remove(force=True); return True
RecreateRemoveTemp(d, ok) ==
    /\ dpPc[d] = "remove_temp"
    /\ IF ok THEN /\ dpOrig' = [dpOrig EXCEPT ![d] = [name |-> "gone", state |-> "removed"]]
                  /\ DpReturn(d, "True")
             ELSE /\ DpGoto(d, "undo_remove")
                  /\ UNCHANGED << dpOrig, dpRet, failed_recreates >>
    /\ UNCHANGED << dpPhase, dpStatus, dpTargetId, dpMode, dpNew >>

\* except: new_container.remove(force=True), whose failure is passed over
RestoreRemoveNew(d, ok) ==
    /\ dpPc[d] = "undo_remove"
    /\ dpNew' = [dpNew EXCEPT ![d] = IF ok \/ dpNew[d].state = "none" THEN NoNew ELSE @]
    /\ DpGoto(d, "undo_rename")
    /\ UNCHANGED << dpPhase, dpStatus, dpTargetId, dpMode, dpOrig, dpRet, failed_recreates >>

\* except: temp_container.rename(container.name); the name must be free; a
\* raise here goes to the outer except clause
RestoreRename(d, ok) ==
    /\ dpPc[d] = "undo_rename"
    /\ IF ok /\ dpNew[d].state = "none"
          THEN /\ dpOrig' = [dpOrig EXCEPT ![d].name = "own"]
               /\ DpGoto(d, "undo_start")
               /\ UNCHANGED << dpRet, failed_recreates >>
          ELSE /\ DpReturn(d, "False")
               /\ UNCHANGED dpOrig
    /\ UNCHANGED << dpPhase, dpStatus, dpTargetId, dpMode, dpNew >>

\* except: temp_container.start(); return False
RestoreStartOriginal(d, ok) ==
    /\ dpPc[d] = "undo_start"
    /\ dpOrig' = [dpOrig EXCEPT ![d].state = IF ok THEN "running" ELSE @]
    /\ DpReturn(d, "False")
    /\ UNCHANGED << dpPhase, dpStatus, dpTargetId, dpMode, dpNew >>

\* _do_update: the message gets its warning or its success note; return result
DependentsDone ==
    /\ dpPhase = "dependents"
    /\ \A d \in Dependents : dpRet[d] # "none"
    /\ dpPhase' = "returned"
    /\ UNCHANGED << dpStatus, dpTargetId, dpMode, dpPc, dpOrig, dpNew, dpRet,
                    failed_recreates >>


(***************************************************************************)
(* Stack-aware update: update_via_portainer, redeploy_stack and the line   *)
(* scanners of PortainerClient.  A line of the compose document is its     *)
(* indentation, its key and the text after the colon.                      *)
(***************************************************************************)

Line(indent, key, value) == [indent |-> indent, key |-> key, value |-> value]

ServiceNames == {"web", "db"}

NoService == "-"

\* the lines under a service key: with an image, in either order with the
\* container name, built from a Dockerfile, or without a container name
Bodies(s) ==
    { << Line(4, "image", "old-" \o s), Line(4, "container_name", s) >>,
      << Line(4, "container_name", s), Line(4, "image", "old-" \o s) >>,
      << Line(4, "build", "."), Line(4, "container_name", s) >>,
      << Line(4, "image", "old-" \o s) >> }

Tails == { << >>, << Line(0, "volumes", ""), Line(2, "data", "") >> }

ComposeDocuments ==
    { << Line(0, "services", ""), Line(2, "web", "") >> \o w
          \o << Line(2, "db", "") >> \o d \o t :
      w \in Bodies("web"), d \in Bodies("db"), t \in Tails }

NoStack == [service_name |-> NoService]

PortainerQuiet ==
    /\ compose = << >>
    /\ ptArg = [container_name |-> "web", new_image |-> ""]
    /\ ptPc = "done"
    /\ stack_info = NoStack
    /\ ptSubmitted = << >>
    /\ ptRet = "none"

PortainerInit ==
    /\ compose \in ComposeDocuments
    /\ ptArg \in [container_name : {"web", "db", "other"}, new_image : {"", "new"}]
    /\ ptPc = "lookup"
    /\ stack_info = NoStack
    /\ ptSubmitted = << >>
    /\ ptRet = "none"

\* stripped == "services:"
is_services(line) == line.indent = 0 /\ line.key = "services" /\ line.value = ""

\* stripped and not stripped.startswith(" ")
is_top_level(line) == line.indent = 0

\* service_re: two spaces, a name, a colon and nothing after it
service_re(line) == line.indent = 2 /\ line.value = ""

\* image_re: indentation, `image:` and a value
image_re(line) == line.indent > 0 /\ line.key = "image" /\ line.value # ""

\* container_name_re: indentation, `container_name:` and a value
container_name_re(line) == line.indent > 0 /\ line.key = "container_name" /\ line.value # ""

RECURSIVE parse_container_names_from(_, _, _, _)
parse_container_names_from(lines, i, in_services_block, current_service) ==
    IF i > Len(lines) THEN { }
    ELSE LET line == lines[i]
         IN  IF is_services(line)
                THEN parse_container_names_from(lines, i + 1, TRUE, NoService)
             ELSE IF in_services_block /\ is_top_level(line)
                THEN parse_container_names_from(lines, i + 1, FALSE, NoService)
             ELSE IF ~in_services_block
                THEN parse_container_names_from(lines, i + 1, FALSE, current_service)
             ELSE IF service_re(line)
                THEN parse_container_names_from(lines, i + 1, TRUE, line.key)
             ELSE (IF current_service # NoService /\ container_name_re(line)
                      THEN { << current_service, line.value >> } ELSE { })
                  \cup parse_container_names_from(lines, i + 1, TRUE, current_service)

\* _parse_container_names: the pairs (service, container name) of the document
parse_container_names(compose_content) ==
    parse_container_names_from(compose_content, 1, FALSE, NoService)

\* the loop of _apply_image_updates from line i on
RECURSIVE apply_image_updates_from(_, _, _, _, _, _)
apply_image_updates_from(lines, i, in_services_block, current_service, replaced, image_updates) ==
    IF i > Len(lines) THEN << >>
    ELSE LET line == lines[i]
         IN  IF is_services(line)
                THEN << line >> \o apply_image_updates_from(lines, i + 1, TRUE, NoService,
                                                            replaced, image_updates)
             ELSE IF in_services_block /\ is_top_level(line)
                THEN << line >> \o apply_image_updates_from(lines, i + 1, FALSE, NoService,
                                                            replaced, image_updates)
             ELSE IF in_services_block /\ service_re(line)
                THEN << line >> \o apply_image_updates_from(lines, i + 1, TRUE, line.key,
                                                            replaced, image_updates)
             ELSE IF /\ in_services_block
                     /\ current_service \in DOMAIN image_updates
                     /\ current_service \notin replaced
                     /\ image_re(line)
                THEN << [line EXCEPT !.value = image_updates[current_service]] >>
                     \o apply_image_updates_from(lines, i + 1, in_services_block,
                                                 current_service,
                                                 replaced \cup {current_service},
                                                 image_updates)
             ELSE << line >> \o apply_image_updates_from(lines, i + 1, in_services_block,
                                                         current_service, replaced,
                                                         image_updates)

\* _apply_image_updates(compose_content, image_updates)
apply_image_updates(compose_content, image_updates) ==
    apply_image_updates_from(compose_content, 1, FALSE, NoService, { }, image_updates)

\* get_container_stack: the mapping built from the stacks' compose files, or
\* None when the listing fails
GetContainerStack(reachable) ==
    /\ ptPc = "lookup"
    /\ LET hits == { p \in parse_container_names(compose) : p[2] = ptArg.container_name }
       IN  IF reachable /\ hits # { }
              THEN /\ stack_info' = [service_name |-> (CHOOSE p \in hits : TRUE)[1]]
                   /\ ptPc' = "redeploy"
                   /\ UNCHANGED ptRet
              ELSE /\ ptPc' = "done"
                   /\ ptRet' = "engine"
                   /\ UNCHANGED stack_info
    /\ UNCHANGED << compose, ptArg, ptSubmitted >>

\* redeploy_stack: fetch the compose file, patch it when image_updates is
\* given, PUT it; update_via_portainer reports success, any failure makes
\* _do_update go on to the engine
RedeployStack(fetched, put) ==
    /\ ptPc = "redeploy"
    /\ LET image_updates ==
               IF ptArg.new_image # "" /\ stack_info.service_name # NoService
                  THEN [s \in {stack_info.service_name} |-> ptArg.new_image]
                  ELSE << >>
           content == IF DOMAIN image_updates # { }
                         THEN apply_image_updates(compose, image_updates)
                         ELSE compose
       IN  IF fetched /\ put
              THEN /\ ptSubmitted' = content
                   /\ compose' = content
                   /\ ptRet' = "success"
              ELSE /\ ptRet' = "engine"
                   /\ UNCHANGED << ptSubmitted, compose >>
    /\ ptPc' = "done"
    /\ UNCHANGED << ptArg, stack_info >>


(***************************************************************************)
(* queue_auto_scan over the snapshots of one collection pass               *)
(* (trivy_utils.py, get_data.py).  A snapshot is reduced to the fields the *)
(* function reads; scan_status "none" stands for a row that has no         *)
(* vulnerability_summary.                                                  *)
(***************************************************************************)

ScanSnapshot(image, scan_status, security_skip) ==
    [image |-> image, scan_status |-> scan_status, security_skip |-> security_skip]

\* process_container: the summary comes from get_vulnerability_summary, or
\* is {'scan_status': 'skipped'} for a container labelled security.skip
ContainerSnapshots ==
    { ScanSnapshot(image, s, FALSE) :
        image \in Images, s \in {"not_scanned", "scanned", "failed", "error"} }
    \cup { ScanSnapshot(image, "skipped", TRUE) : image \in Images }

\* the rows of get_all_data and process_swarm_service that carry neither a
\* summary nor a security_skip field
PlaceholderSnapshots ==
    { ScanSnapshot("timeout-error", "none", FALSE), ScanSnapshot("error-loading", "none", FALSE) }

SnapshotLists ==
    UNION { [1..n -> ContainerSnapshots \cup PlaceholderSnapshots] : n \in 0..MaxSnapshots }

AutoScanQuiet ==
    /\ snapshots = << >>
    /\ asPending = { }
    /\ asPc = 0
    /\ seen_images = { }
    /\ queued = 0
    /\ asPut = << >>

AutoScanInit ==
    /\ snapshots \in SnapshotLists
    /\ asPending \in SUBSET Images
    /\ asPc = 1
    /\ seen_images = { }
    /\ queued = 0
    /\ asPut = << >>

\* queue_scan as queue_auto_scan sees it: False for a digest with a valid
\* cached result (the rows that get_vulnerability_summary found scanned or
\* failed) and for a pending image, True otherwise
queue_scan_accepts(container) ==
    /\ container.scan_status \notin {"scanned", "failed"}
    /\ container.image \notin asPending

\* one iteration of `for container in containers`
AutoScanContainer ==
    /\ asPc # 0
    /\ asPc <= Len(snapshots)
    /\ LET container == snapshots[asPc]
           image_name == container.image
       IN  IF \/ image_name = "" \/ image_name \in seen_images
              \/ container.security_skip
              \/ container.scan_status \in {"scanned", "skipped"}
             THEN UNCHANGED << seen_images, queued, asPut, asPending >>
             ELSE /\ seen_images' = seen_images \cup {image_name}
                  /\ IF queue_scan_accepts(container)
                       THEN /\ queued' = queued + 1
                            /\ asPut' = Append(asPut, image_name)
                            /\ asPending' = asPending \cup {image_name}
                       ELSE UNCHANGED << queued, asPut, asPending >>
    /\ asPc' = asPc + 1
    /\ UNCHANGED snapshots

\* return queued
AutoScanReturn ==
    /\ asPc = Len(snapshots) + 1
    /\ asPc' = 0
    /\ UNCHANGED << snapshots, asPending, seen_images, queued, asPut >>


(***************************************************************************)
(* Image-name validation (trivy_utils.py): validate_image_name, and where  *)
(* scan_image and queue_scan stand with respect to it.  A name is its      *)
(* leading characters followed by `pad` further letters "a".               *)
(***************************************************************************)

NameCharacters == {"a", ":", "/", "$", "\n"}

ImageNames ==
    [head : UNION { [1..n -> NameCharacters] : n \in 0..MaxNameLen },
     pad : {0, MaxImageNameLength - 2}]

\* len(image_name)
len(name) == Len(name.head) + name.pad

\* the characters as the pattern sees them: a run of "a" matches wherever
\* one "a" does
text(name) == name.head \o (IF name.pad > 0 THEN << "a" >> ELSE << >>)

\* [a-zA-Z0-9], [a-zA-Z0-9._/-] and [a-zA-Z0-9._-]
FirstChars == {"a"}
BodyChars == {"a", "/"}
TagChars == {"a"}

\* ^[a-zA-Z0-9][a-zA-Z0-9._/-]*(?::[a-zA-Z0-9._-]+)?  up to the end of s
FullMatch(s) ==
    /\ Len(s) >= 1
    /\ s[1] \in FirstChars
    /\ \/ \A i \in 2..Len(s) : s[i] \in BodyChars
       \/ \E k \in 2..(Len(s) - 1) :
             /\ s[k] = ":"
             /\ \A i \in 2..(k - 1) : s[i] \in BodyChars
             /\ \A i \in (k + 1)..Len(s) : s[i] \in TagChars

\* IMAGE_NAME_PATTERN.match: `$` also matches before a final newline
IMAGE_NAME_PATTERN(s) ==
    \/ FullMatch(s)
    \/ Len(s) >= 1 /\ s[Len(s)] = "\n" /\ FullMatch(SubSeq(s, 1, Len(s) - 1))

DANGEROUS_CHARS == {"$", "\n"}

validate_image_name(name) ==
    /\ len(name) > 0
    /\ ~(len(name) > MaxImageNameLength)
    /\ IMAGE_NAME_PATTERN(text(name))
    /\ ~ \E i \in DOMAIN text(name) : text(name)[i] \in DANGEROUS_CHARS

ValidateQuiet ==
    /\ vlName = [head |-> << >>, pad |-> 0]
    /\ vlPath = "sync"
    /\ vlPc = "done"
    /\ vlCalls = { }
    /\ vlCached = FALSE
    /\ vlRet = "none"

ValidateInit ==
    /\ vlName \in ImageNames
    /\ vlPath \in {"sync", "queued"}
    /\ vlPc = IF vlPath = "sync" THEN "scan_image" ELSE "queue_scan"
    /\ vlCalls = { }
    /\ vlCached = FALSE
    /\ vlRet = "none"

Call(by, to) == vlCalls' = vlCalls \cup { [by |-> by, to |-> to] }

\* queue_scan: get_image_digest(docker_client, image_name) and the cache
\* lookup; a cached or pending image is answered False, else it is queued
QueueScanName(accepted) ==
    /\ vlPc = "queue_scan"
    /\ Call("queue_scan", "engine")
    /\ vlPc' = IF accepted THEN "queued" ELSE "done"
    /\ UNCHANGED << vlName, vlPath, vlCached, vlRet >>

\* _scanner_loop: get the item, call scan_image
ScannerLoopTakes ==
    /\ vlPc = "queued"
    /\ vlPc' = "scan_image"
    /\ UNCHANGED << vlName, vlPath, vlCalls, vlCached, vlRet >>

\* scan_image: is_enabled and health_check(), which carries no image name
ScanImageHealth(healthy) ==
    /\ vlPc = "scan_image"
    /\ IF healthy THEN vlPc' = "validate" /\ UNCHANGED vlRet
                  ELSE vlPc' = "done" /\ vlRet' = "None"
    /\ UNCHANGED << vlName, vlPath, vlCalls, vlCached >>

\* a validation step that lets every name through
name_rejected_never(name) == FALSE

\* scan_image: `if not validate_image_name(image_name)`
name_rejected(name) == ~validate_image_name(name)

\* scan_image: "Invalid image name rejected", return None
ScanImageValidate ==
    /\ vlPc = "validate"
    /\ IF name_rejected(vlName) THEN vlPc' = "done" /\ vlRet' = "None"
                                ELSE vlPc' = "digest" /\ UNCHANGED vlRet
    /\ UNCHANGED << vlName, vlPath, vlCalls, vlCached >>

\* scan_image: get_image_digest and the cache lookup
ScanImageDigest(hit) ==
    /\ vlPc = "digest"
    /\ Call("scan_image", "engine")
    /\ IF hit THEN vlPc' = "done" /\ vlRet' = "cached"
              ELSE vlPc' = "exec" /\ UNCHANGED vlRet
    /\ UNCHANGED << vlName, vlPath, vlCached >>

\* scan_image: exec_run of `trivy image ... "<image_name>"`; on success the
\* result is cached under the digest
ScanImageExec(ok) ==
    /\ vlPc = "exec"
    /\ Call("scan_image", "scanner")
    /\ vlCached' = ok
    /\ vlRet' = IF ok THEN "result" ELSE "None"
    /\ vlPc' = "done"
    /\ UNCHANGED << vlName, vlPath >>


(***************************************************************************)
(* Auto-updater eligibility (auto_updater.py get_eligible_containers over  *)
(* the inventory of get_data.py).  A label that is not set is "".          *)
(***************************************************************************)

AutoLabels == {"", "true", "false"}
ActionLabels == {"", "skip", "pin", "Pin"}
InventoryStatuses == {"running", "healthy", "exited"}

EngineContainers ==
    [auto : AutoLabels, action : ActionLabels, status : InventoryStatuses,
     newer : BOOLEAN]

EligibleQuiet ==
    /\ elContainers = << >>
    /\ elData = << >>
    /\ elPc = 0
    /\ eligible = << >>

EligibleInit ==
    /\ elContainers \in UNION { [1..n -> EngineContainers] : n \in 1..MaxAutoContainers }
    /\ elData = << >>
    /\ elPc = 0 - 1
    /\ eligible = << >>

\* str.lower on the label values above
lower(word) == IF word = "Pin" THEN "pin" ELSE word

\* extract_orchestration_labels: the keys it returns that the auto-updater
\* reads; orchestration.get('auto_update') of this dict is None
extract_orchestration_labels(c) ==
    [update_action |-> c.action, auto_update |-> FALSE]

\* get_all_data inside get_eligible_containers: one snapshot per container
GetAllDataForAutoUpdate ==
    /\ elPc = 0 - 1
    /\ elData' = [i \in DOMAIN elContainers |->
                    [orchestration |-> extract_orchestration_labels(elContainers[i]),
                     status |-> elContainers[i].status,
                     newer_version_available |-> elContainers[i].newer,
                     latest_version |-> IF elContainers[i].newer THEN "2" ELSE ""]]
    /\ elPc' = 1
    /\ UNCHANGED << elContainers, eligible >>

\* one iteration of `for c in containers`
EligibleContainer ==
    /\ elPc >= 1
    /\ elPc <= Len(elData)
    /\ LET c == elData[elPc]
       IN  eligible' =
              IF /\ c.orchestration.auto_update
                 /\ lower(c.orchestration.update_action) \notin {"skip", "pin"}
                 /\ lower(c.status) = "running"
                 /\ c.newer_version_available
                 /\ c.latest_version # ""
                THEN Append(eligible, elPc)
                ELSE eligible
    /\ elPc' = elPc + 1
    /\ UNCHANGED << elContainers, elData >>

\* eligible.sort(...); return eligible
EligibleReturn ==
    /\ elPc = Len(elData) + 1
    /\ elPc' = 0
    /\ UNCHANGED << elContainers, elData, eligible >>

LaterQuiet == InventoryQuiet /\ HistoryQuiet /\ ApiKeysQuiet /\ VersionQuiet
    /\ SelectQuiet
    /\ VersionCacheQuiet
    /\ UpdateCheckQuiet
    /\ NormalizeQuiet
    /\ JournalQuiet
    /\ StatusQuiet
    /\ DiscoveryQuiet
    /\ DependentsQuiet
    /\ PortainerQuiet
    /\ AutoScanQuiet
    /\ ValidateQuiet
    /\ EligibleQuiet

(***************************************************************************)
(* Specifications.                                                         *)
(***************************************************************************)
InitScheduler == SchedInit /\ CacheInit /\ QueueInit /\ ScanInit /\ UpdateQuiet /\ LaterQuiet

\* the election: every process calls start() once, nobody calls stop()
NextElection ==
    /\ \E p \in Procs :
          \/ StartOpen(p)
          \/ StartFlock(p)
          \/ StartRefreshThread(p)
          \/ StartVersionThread(p)
          \/ RefreshLoopStep(p)
          \/ VersionLoopStep(p)
    /\ UNCHANGED << cacheVars, queueVars, scanVars, updVars >>
    /\ UNCHANGED laterVars

SpecElection == InitScheduler /\ [][NextElection]_vars

\* start() once per process (create_app), stop() at any time afterwards
NextScheduler ==
    /\ \E p \in Procs :
          \/ StartOpen(p)
          \/ StartFlock(p)
          \/ StartRefreshThread(p)
          \/ StartVersionThread(p)
          \/ RefreshLoopStep(p)
          \/ VersionLoopStep(p)
          \/ Stop(p)
    /\ UNCHANGED << cacheVars, queueVars, scanVars, updVars >>
    /\ UNCHANGED laterVars

SpecScheduler == InitScheduler /\ [][NextScheduler]_vars

\* cache objects of several worker processes operating on one cache file
NextCache ==
    /\ \/ /\ cacheOps < MaxCacheOps
          /\ cacheOps' = cacheOps + 1
          /\ \E p \in CacheProcs :
                \/ \E k \in Keys : BeginGet(p, k)
                \/ \E k \in Keys, v \in Values : BeginSet(p, k, v)
                \/ \E k \in Keys : BeginDelete(p, k)
                \/ BeginPrune(p)
                \/ Clear(p)
       \/ /\ UNCHANGED cacheOps
          /\ \/ Tick
             \/ \E p \in CacheProcs :
                   \/ ReadLock(p)
                   \/ ReadFile(p)
                   \/ WriteOpen(p)
                   \/ WriteLock(p)
                   \/ WriteDump(p)
                   \/ WriteUnlock(p)
                   \/ WriteClose(p)
    /\ UNCHANGED << schedVars, queueVars, scanVars, updVars >>
    /\ UNCHANGED laterVars

InitCache == SchedQuiet /\ CacheInit /\ QueueInit /\ ScanInit /\ UpdateQuiet /\ LaterQuiet

SpecCache == InitCache /\ [][NextCache]_vars

\* the variables of the cache that the scan queue of one process leaves alone
cacheRest == << exHolder, shHolders, cachePc, cacheOp, cacheLocal, cacheFlushed,
               cacheOrphan, cacheRet, cacheExists, committed, seen, getOutcome,
               cacheOps >>

\* threads of one process calling queue_scan, and the scanner threads
NextScanQueue ==
    /\ \/ /\ \E t \in Callers :
                \/ \E image \in Images, client \in BOOLEAN :
                      QueueScanCheckCache(t, image, client)
                \/ QueueScanCheckPending(t)
                \/ StartScannerThreadCheck(t)
                \/ StartScannerThreadCreate(t)
                \/ QueueScanPut(t)
          /\ UNCHANGED << now, cacheFile >>
       \/ /\ \E w \in Callers :
                \/ ScannerLoopGet(w)
                \/ ScannerLoopDiscard(w)
                \/ ScannerLoopScan(w)
          /\ UNCHANGED now
       \/ /\ now < MaxTime
          /\ now' = now + 1
          /\ UNCHANGED << cacheFile, queueVars >>
    /\ UNCHANGED << schedVars, cacheRest, scanVars, updVars >>
    /\ UNCHANGED laterVars

InitScanQueue == SchedQuiet /\ CacheInit /\ QueueInit /\ ScanInit /\ UpdateQuiet /\ LaterQuiet

SpecScanQueue == InitScanQueue /\ [][NextScanQueue]_vars

\* processes calling scan_image and clear_cache on the shared scan cache
NextScan ==
    /\ \/ \E p \in CacheProcs :
             \/ \E image \in Refs, client \in BOOLEAN, healthy \in BOOLEAN :
                   ScanBegin(p, image, client, healthy)
             \/ ScanAfterLookup(p)
             \/ ScanExec(p)
             \/ ScanReturn(p)
             \/ ClearCache(p)
       \/ /\ \/ Tick
             \/ \E p \in CacheProcs :
                   \/ ReadLock(p)
                   \/ ReadFile(p)
                   \/ WriteOpen(p)
                   \/ WriteLock(p)
                   \/ WriteDump(p)
                   \/ WriteUnlock(p)
                   \/ WriteClose(p)
          /\ UNCHANGED scanVars
    /\ UNCHANGED << schedVars, queueVars, cacheOps, updVars >>
    /\ UNCHANGED laterVars

InitScan == SchedQuiet /\ CacheInit /\ QueueInit /\ ScanInit /\ UpdateQuiet /\ LaterQuiet

SpecScan == InitScan /\ [][NextScan]_vars

\* the engine or orchestrator operation that the step of updater u performed
Performed(u) ==
    CASE updPc[u] = "portainer" /\ updPc'[u] = "release" -> {"redeploy"}
      [] updPc[u] = "pull" /\ updPc'[u] = "has_updates" -> {"pull"}
      [] updPc[u] = "stop" /\ updPc'[u] = "remove" -> {"stop"}
      [] updPc[u] = "remove" /\ updPc'[u] = "wait" -> {"remove"}
      [] updPc[u] = "cleanup" /\ containers' # containers -> {"remove"}
      [] updPc[u] = "create" /\ updPc'[u] = "start" -> {"create"}
      [] updPc[u] = "restore" /\ updPc'[u] = "restore_start" -> {"create"}
      [] updPc[u] = "start" /\ updPc'[u] = "release" -> {"start"}
      [] updPc[u] = "restore_start" /\ updRet'[u] = "restored" -> {"start"}
      [] OTHER -> {}

\* history of each call: begun when the lock is taken, dropped at release
History(u) ==
    IF updPc[u] = "idle"
      THEN IF updPc'[u] = "idle" THEN updHist[u]
           ELSE [pre |-> containers[updArg'[u].name].image, steps |-> {}]
      ELSE IF updPc'[u] = "idle" THEN [pre |-> NoImage, steps |-> {}]
           ELSE [updHist[u] EXCEPT !.steps = @ \cup Performed(u)]

\* updaters calling update(), and the update checker pulling images
NextUpdate ==
    /\ \/ \E u \in Updaters :
             \/ \E name \in ContNames, force \in BOOLEAN,
                   new_image \in {None, TagRef("v2")} :
                   Update(u, name, force, new_image)
             \/ LabelCheck(u)
             \/ Portainer(u)
             \/ GetContainer(u)
             \/ PullImage(u)
             \/ HasUpdates(u)
             \/ OldImage(u)
             \/ StopContainer(u)
             \/ RemoveContainer(u)
             \/ WaitForRemoval(u)
             \/ CreateContainer(u)
             \/ StartContainer(u)
             \/ CheckAfterFailure(u)
             \/ CleanupPartial(u)
             \/ RestoreCreate(u)
             \/ RestoreStart(u)
             \/ Release(u)
       \/ \E r \in ImageRefs : CheckerPull(r)
    /\ updHist' = [u \in Updaters |-> History(u)]
    /\ UNCHANGED << schedVars, cacheVars, queueVars, scanVars >>
    /\ UNCHANGED laterVars

InitUpdate == SchedQuiet /\ CacheInit /\ QueueInit /\ ScanInit /\ UpdateInit /\ LaterQuiet

SpecUpdate == InitUpdate /\ [][NextUpdate]_vars

\* one collection pass of get_all_data
NextInventory ==
    /\ \/ \E h \in Hosts : TaskComplete(h)
       \/ \E h \in Hosts : TaskHang(h)
       \/ CollectResult
       \/ CollectTimeout
       \/ ExecutorShutdown
    /\ UNCHANGED << coreVars, histVars, akVars, verVars, selVars, vcVars, ucVars, nrVars, jrVars, stVars, dcVars, dpVars, ptVars, asVars, vlVars, elVars >>

CoreQuiet == SchedQuiet /\ CacheInit /\ QueueInit /\ ScanInit /\ UpdateQuiet

InitInventory ==
    CoreQuiet /\ InventoryInit /\ HistoryQuiet /\ ApiKeysQuiet /\ VersionQuiet
    /\ SelectQuiet
    /\ VersionCacheQuiet
    /\ UpdateCheckQuiet
    /\ NormalizeQuiet
    /\ JournalQuiet
    /\ StatusQuiet
    /\ DiscoveryQuiet
    /\ DependentsQuiet
    /\ PortainerQuiet
    /\ AutoScanQuiet
    /\ ValidateQuiet
    /\ EligibleQuiet

SpecInventory == InitInventory /\ [][NextInventory]_vars

\* the pool threads and the request thread are scheduled by the interpreter:
\* a thread that can take a step eventually takes one
SpecInventoryFair == SpecInventory /\ WF_vars(NextInventory)

\* threads of the application calling record_fingerprint
NextFingerprint ==
    /\ \/ HistTick
       \/ \E t \in Recorders, d \in Keys, f \in Fingerprints, sev \in Severities,
             ok \in BOOLEAN : RecordBegin(t, d, f, sev, ok)
       \/ \E t \in Recorders, ok \in BOOLEAN : RecordInsert(t, ok)
    /\ UNCHANGED << coreVars, invVars, akVars, verVars, selVars, vcVars, ucVars, nrVars, jrVars, stVars, dcVars, dpVars, ptVars, asVars, vlVars, elVars >>

InitHistory == CoreQuiet /\ LaterQuiet

SpecFingerprint == InitHistory /\ [][NextFingerprint]_vars

\* scan results are saved with the timestamps and counts of their scans and
\* the trend of a digest is asked at any moment
NextTrend ==
    /\ \/ \E d \in Keys, ts \in 0..MaxTime, critical \in 0..1, high \in 0..1,
             error \in {"NULL", "scan failed"}, ok \in BOOLEAN :
             save_scan_result(d, ts, critical, high, error, ok)
       \/ \E d \in Keys, ok \in BOOLEAN : calculate_trend(d, ok)
    /\ UNCHANGED << coreVars, invVars, akVars, verVars, selVars, vcVars, ucVars, nrVars, jrVars, stVars, dcVars, dpVars, ptVars, asVars, vlVars, elVars >>

SpecTrend == InitHistory /\ [][NextTrend]_vars

\* the key management routes and the clients that present keys
NextApiKeys ==
    /\ \/ AkTick
       \/ \E plaintext \in KeySpace, ttl \in TTLs : create_key(plaintext, ttl)
       \/ \E key_id \in 1..MaxKeys, ok \in BOOLEAN : revoke_key(key_id, ok)
       \/ \E c \in Clients, plaintext \in KeySpace \cup {""} : ValidateBegin(c, plaintext)
       \/ \E c \in Clients, ok \in BOOLEAN : ValidateSelect(c, ok)
    /\ UNCHANGED << coreVars, invVars, histVars, verVars, selVars, vcVars, ucVars, nrVars, jrVars, stVars, dcVars, dpVars, ptVars, asVars, vlVars, elVars >>

SpecApiKeys == InitHistory /\ [][NextApiKeys]_vars

\* VersionParser applied to the tags
NextVersion ==
    /\ CompareTags
    /\ UNCHANGED << coreVars, invVars, histVars, akVars, selVars, vcVars, ucVars, nrVars, jrVars, stVars, dcVars, dpVars, ptVars, asVars, vlVars, elVars >>

InitVersion ==
    CoreQuiet /\ InventoryQuiet /\ HistoryQuiet /\ ApiKeysQuiet /\ VersionInit
    /\ SelectQuiet
    /\ VersionCacheQuiet
    /\ UpdateCheckQuiet
    /\ NormalizeQuiet
    /\ JournalQuiet
    /\ StatusQuiet
    /\ DiscoveryQuiet
    /\ DependentsQuiet
    /\ PortainerQuiet
    /\ AutoScanQuiet
    /\ ValidateQuiet
    /\ EligibleQuiet

SpecVersion == InitVersion /\ [][NextVersion]_vars

\* check_for_newer_version applied to an image and a tag list
NextSelect ==
    /\ SelectNewer
    /\ UNCHANGED << coreVars, invVars, histVars, akVars, verVars, vcVars, ucVars, nrVars, jrVars, stVars, dcVars, dpVars, ptVars, asVars, vlVars, elVars >>

InitSelect ==
    CoreQuiet /\ InventoryQuiet /\ HistoryQuiet /\ ApiKeysQuiet /\ VersionQuiet
    /\ SelectInit
    /\ VersionCacheQuiet
    /\ UpdateCheckQuiet
    /\ NormalizeQuiet
    /\ JournalQuiet
    /\ StatusQuiet
    /\ DiscoveryQuiet
    /\ DependentsQuiet
    /\ PortainerQuiet
    /\ AutoScanQuiet
    /\ ValidateQuiet
    /\ EligibleQuiet

SpecSelect == InitSelect /\ [][NextSelect]_vars

\* the worker processes checking images against one cache file
NextVersionCache ==
    /\ \/ VcTick
       \/ \E p \in Checkers, image \in Images : VcBegin(p, image)
       \/ \E p \in Checkers : VcCachedNone(p)
       \/ \E p \in Checkers, answer \in {"empty", "None", "newer"} : VcGetTags(p, answer)
       \/ \E p \in Checkers : VcSetRead(p)
       \/ \E p \in Checkers : VcSetOpen(p)
       \/ \E p \in Checkers : VcSetDump(p)
    /\ UNCHANGED << coreVars, invVars, histVars, akVars, verVars, selVars, ucVars, nrVars, jrVars, stVars, dcVars, dpVars, ptVars, asVars, vlVars, elVars >>

SpecVersionCache == InitHistory /\ [][NextVersionCache]_vars


NextUpdateCheck ==
    /\ \/ cancel_updates
       \/ \E c \in 1..NConts : UpdateCacheExpire(c)
       \/ \E r \in Requests : CheckUpdatesStart(r)
       \/ \E r \in Requests : CheckUpdatesServer(r)
       \/ \E r \in Requests : CheckUpdatesContainer(r)
       \/ \E r \in Requests : CheckImageUpdatesEnter(r)
       \/ \E r \in Requests : CheckImageUpdatesCache(r)
       \/ \E r \in Requests : CheckImageUpdatesBeforePull(r)
       \/ \E r \in Requests : PullAndCompareSubmit(r)
       \/ \E r \in Requests, outcome \in PullOutcomes : PullAndCompareResult(r, outcome)
       \/ \E r \in Requests : PullAndCompareAfterPull(r)
       \/ \E r \in Requests : CheckImageUpdatesStore(r)
       \/ \E r \in Requests : CheckUpdatesAfter(r)
       \/ \E r \in Requests : CheckUpdatesReport(r)
    /\ UNCHANGED << coreVars, invVars, histVars, akVars, verVars, selVars, vcVars, nrVars, jrVars, stVars, dcVars, dpVars, ptVars, asVars, vlVars, elVars >>

SpecUpdateCheck == InitHistory /\ [][NextUpdateCheck]_vars


NextNormalize ==
    /\ \/ normalize_response
       \/ serialize_scan_result
       \/ deserialize_scan_result
    /\ UNCHANGED << coreVars, invVars, histVars, akVars, verVars, selVars, vcVars, ucVars, jrVars, stVars, dcVars, dpVars, ptVars, asVars, vlVars, elVars >>

InitNormalize ==
    CoreQuiet /\ InventoryQuiet /\ HistoryQuiet /\ ApiKeysQuiet /\ VersionQuiet
    /\ SelectQuiet /\ VersionCacheQuiet /\ UpdateCheckQuiet /\ NormalizeInit
    /\ JournalQuiet
    /\ StatusQuiet
    /\ DiscoveryQuiet
    /\ DependentsQuiet
    /\ PortainerQuiet
    /\ AutoScanQuiet
    /\ ValidateQuiet
    /\ EligibleQuiet

SpecNormalize == InitNormalize /\ [][NextNormalize]_vars


NextJournal ==
    /\ \/ \E p \in Appenders : AppendOpen(p)
       \/ \E p \in Appenders : AppendFlock(p)
       \/ \E p \in Appenders : AppendLoad(p)
       \/ \E p \in Appenders : AppendTruncateDump(p)
       \/ \E p \in Appenders : AppendUnlock(p)
       \/ \E p \in Appenders : AppendClose(p)
    /\ UNCHANGED << coreVars, invVars, histVars, akVars, verVars, selVars, vcVars, ucVars,
                    nrVars, stVars, dcVars, dpVars, ptVars, asVars, vlVars, elVars >>

SpecJournal == InitHistory /\ [][NextJournal]_vars


NextStatus ==
    /\ get_status_with_exit_code
    /\ UNCHANGED << coreVars, invVars, histVars, akVars, verVars, selVars, vcVars, ucVars,
                    nrVars, jrVars, dcVars, dpVars, ptVars, asVars, vlVars, elVars >>

InitStatus ==
    CoreQuiet /\ InventoryQuiet /\ HistoryQuiet /\ ApiKeysQuiet /\ VersionQuiet
    /\ SelectQuiet /\ VersionCacheQuiet /\ UpdateCheckQuiet /\ NormalizeQuiet
    /\ JournalQuiet /\ StatusInit
    /\ DiscoveryQuiet
    /\ DependentsQuiet
    /\ PortainerQuiet
    /\ AutoScanQuiet
    /\ ValidateQuiet
    /\ EligibleQuiet

SpecStatus == InitStatus /\ [][NextStatus]_vars


NextDiscovery ==
    /\ \/ parse_environment
       \/ \E i \in 1..(Len(Nums) + 1), connected \in BOOLEAN, api_name \in BOOLEAN :
             HostCompleted(i, connected, api_name)
       \/ DiscoveryReturn
    /\ UNCHANGED << coreVars, invVars, histVars, akVars, verVars, selVars, vcVars, ucVars,
                    nrVars, jrVars, stVars, dpVars, ptVars, asVars, vlVars, elVars >>

InitDiscovery ==
    CoreQuiet /\ InventoryQuiet /\ HistoryQuiet /\ ApiKeysQuiet /\ VersionQuiet
    /\ SelectQuiet /\ VersionCacheQuiet /\ UpdateCheckQuiet /\ NormalizeQuiet
    /\ JournalQuiet /\ StatusQuiet /\ DiscoveryInit
    /\ DependentsQuiet
    /\ PortainerQuiet
    /\ AutoScanQuiet
    /\ ValidateQuiet
    /\ EligibleQuiet

SpecDiscovery == InitDiscovery /\ [][NextDiscovery]_vars


NextDependents ==
    /\ \/ \E outcome \in {"replaced", "found_running", "raised"} : PerformUpdateEnds(outcome)
       \/ \E d \in Dependents : RecreateCall(d)
       \/ \E d \in Dependents, ok \in BOOLEAN : RecreateStop(d, ok)
       \/ \E d \in Dependents, ok \in BOOLEAN : RecreateRename(d, ok)
       \/ \E d \in Dependents, ok \in BOOLEAN : RecreateCreate(d, ok)
       \/ \E d \in Dependents, ok \in BOOLEAN : RecreateStart(d, ok)
       \/ \E d \in Dependents, ok \in BOOLEAN : RecreateRemoveTemp(d, ok)
       \/ \E d \in Dependents, ok \in BOOLEAN : RestoreRemoveNew(d, ok)
       \/ \E d \in Dependents, ok \in BOOLEAN : RestoreRename(d, ok)
       \/ \E d \in Dependents, ok \in BOOLEAN : RestoreStartOriginal(d, ok)
       \/ DependentsDone
    /\ UNCHANGED << coreVars, invVars, histVars, akVars, verVars, selVars, vcVars, ucVars,
                    nrVars, jrVars, stVars, dcVars, ptVars, asVars, vlVars, elVars >>

InitDependents ==
    CoreQuiet /\ InventoryQuiet /\ HistoryQuiet /\ ApiKeysQuiet /\ VersionQuiet
    /\ SelectQuiet /\ VersionCacheQuiet /\ UpdateCheckQuiet /\ NormalizeQuiet
    /\ JournalQuiet /\ StatusQuiet /\ DiscoveryQuiet /\ DependentsInit
    /\ PortainerQuiet
    /\ AutoScanQuiet
    /\ ValidateQuiet
    /\ EligibleQuiet

SpecDependents == InitDependents /\ [][NextDependents]_vars


NextPortainer ==
    /\ \/ \E reachable \in BOOLEAN : GetContainerStack(reachable)
       \/ \E fetched, put \in BOOLEAN : RedeployStack(fetched, put)
    /\ UNCHANGED << coreVars, invVars, histVars, akVars, verVars, selVars, vcVars, ucVars,
                    nrVars, jrVars, stVars, dcVars, dpVars, asVars, vlVars, elVars >>

InitPortainer ==
    CoreQuiet /\ InventoryQuiet /\ HistoryQuiet /\ ApiKeysQuiet /\ VersionQuiet
    /\ SelectQuiet /\ VersionCacheQuiet /\ UpdateCheckQuiet /\ NormalizeQuiet
    /\ JournalQuiet /\ StatusQuiet /\ DiscoveryQuiet /\ DependentsQuiet /\ PortainerInit
    /\ AutoScanQuiet
    /\ ValidateQuiet
    /\ EligibleQuiet

SpecPortainer == InitPortainer /\ [][NextPortainer]_vars


\* one step of a scanner thread, as it appears in NextScanQueue
ScannerLoopStep(w) ==
    /\ \/ ScannerLoopGet(w)
       \/ ScannerLoopDiscard(w)
       \/ ScannerLoopScan(w)
    /\ UNCHANGED now
    /\ UNCHANGED << schedVars, cacheRest, scanVars, updVars >>
    /\ UNCHANGED laterVars

\* one step of a thread inside queue_scan, as it appears in NextScanQueue
QueueScanStep(t) ==
    /\ \/ QueueScanCheckPending(t)
       \/ StartScannerThreadCheck(t)
       \/ StartScannerThreadCreate(t)
       \/ QueueScanPut(t)
    /\ UNCHANGED << now, cacheFile >>
    /\ UNCHANGED << schedVars, cacheRest, scanVars, updVars >>
    /\ UNCHANGED laterVars

\* the scan queue of one process while the clock stands still: the threads
\* inside queue_scan, each called with the engine client of its host, and the
\* scanner threads
NextScanQueueFair ==
    \/ /\ \E t \in Callers, image \in Images : QueueScanCheckCache(t, image, TRUE)
       /\ UNCHANGED << now, cacheFile >>
       /\ UNCHANGED << schedVars, cacheRest, scanVars, updVars >>
       /\ UNCHANGED laterVars
    \/ \E t \in Callers : QueueScanStep(t)
    \/ \E w \in Callers : ScannerLoopStep(w)

\* a started scanner thread is a daemon thread that the interpreter keeps
\* scheduling, and a thread inside queue_scan runs on to its return
SpecScanQueueFair ==
    /\ InitScanQueue
    /\ [][NextScanQueueFair]_vars
    /\ \A w \in Callers : WF_vars(ScannerLoopStep(w))
    /\ \A t \in Callers : WF_vars(QueueScanStep(t))


(***************************************************************************)
(* Inventory passes of the worker processes: queue_scan reads the shared   *)
(* scan cache, and the scanner thread of the process then runs scan_image  *)
(* for the image it accepted.                                              *)
(***************************************************************************)
\* queue_scan(image_name, docker_client) of an inventory pass: "Check if
\* already cached", the get of the digest
QueueScanLookup(p, image) ==
    /\ scanPc[p] = "idle"
    /\ cachePc[p] = "idle"
    /\ BeginGet(p, get_image_digest(image))
    /\ scanPc' = [scanPc EXCEPT ![p] = "queue_lookup"]
    /\ scanArg' = [scanArg EXCEPT ![p] = [image |-> image, client |-> TRUE]]
    /\ scanRet' = [scanRet EXCEPT ![p] = "none"]
    /\ scanExpect' = [scanExpect EXCEPT ![p] = CompletedFresh(get_image_digest(image))]
    /\ UNCHANGED << completed, scans >>

\* queue_scan: `if is_valid and cached: return False`, else the image is
\* marked pending and put on the queue; return True
QueueScanAnswer(p) ==
    /\ scanPc[p] = "queue_lookup"
    /\ cachePc[p] = "idle"
    /\ IF cacheRet[p].valid /\ cacheRet[p].value # "None"
         THEN /\ scanRet' = [scanRet EXCEPT ![p] = "False"]
              /\ scanPc' = [scanPc EXCEPT ![p] = "idle"]
              /\ scanArg' = [scanArg EXCEPT ![p] = NoItem]
         ELSE /\ scanRet' = [scanRet EXCEPT ![p] = "True"]
              /\ scanPc' = [scanPc EXCEPT ![p] = "queued"]
              /\ UNCHANGED scanArg
    /\ UNCHANGED << scanExpect, completed, scans, cacheState >>

\* _scanner_loop takes the image and calls scan_image, which consults the
\* cache again when the scanner is healthy
ScannerLoopScanImage(p, healthy) ==
    /\ scanPc[p] = "queued"
    /\ cachePc[p] = "idle"
    /\ scans < MaxScans
    /\ scans' = scans + 1
    /\ IF healthy
         THEN /\ BeginGet(p, get_image_digest(scanArg[p].image))
              /\ scanPc' = [scanPc EXCEPT ![p] = "lookup"]
              /\ scanRet' = [scanRet EXCEPT ![p] = "none"]
              /\ UNCHANGED scanArg
         ELSE /\ scanRet' = [scanRet EXCEPT ![p] = "None"]
              /\ scanPc' = [scanPc EXCEPT ![p] = "idle"]
              /\ scanArg' = [scanArg EXCEPT ![p] = NoItem]
              /\ UNCHANGED cacheState
    /\ UNCHANGED << scanExpect, completed >>

\* the wall clock advances; a pass that began while a completed scan was
\* within the TTL no longer counts on it once the TTL has run out
TickPass ==
    /\ Tick
    /\ scanExpect' = [p \in CacheProcs |->
                        /\ scanExpect[p]
                        /\ scanPc[p] = "queue_lookup"
                        /\ completed[get_image_digest(scanArg[p].image)] # Never
                        /\ now' - completed[get_image_digest(scanArg[p].image)] < Duration]
    /\ UNCHANGED << scanPc, scanArg, scanRet, completed, scans >>

NextPasses ==
    /\ \/ \E p \in CacheProcs :
             \/ \E image \in Refs : QueueScanLookup(p, image)
             \/ QueueScanAnswer(p)
             \/ \E healthy \in BOOLEAN : ScannerLoopScanImage(p, healthy)
             \/ ScanAfterLookup(p)
             \/ ScanExec(p)
             \/ ScanReturn(p)
       \/ TickPass
       \/ /\ \E p \in CacheProcs :
                \/ ReadLock(p)
                \/ ReadFile(p)
                \/ WriteOpen(p)
                \/ WriteLock(p)
                \/ WriteDump(p)
                \/ WriteUnlock(p)
                \/ WriteClose(p)
          /\ UNCHANGED scanVars
    /\ UNCHANGED << schedVars, queueVars, cacheOps, updVars >>
    /\ UNCHANGED laterVars

SpecPasses == InitScan /\ [][NextPasses]_vars


NextAutoScan ==
    /\ \/ AutoScanContainer
       \/ AutoScanReturn
    /\ UNCHANGED << coreVars, invVars, histVars, akVars, verVars, selVars, vcVars, ucVars,
                    nrVars, jrVars, stVars, dcVars, dpVars, ptVars, vlVars, elVars >>

InitAutoScan ==
    CoreQuiet /\ InventoryQuiet /\ HistoryQuiet /\ ApiKeysQuiet /\ VersionQuiet
    /\ SelectQuiet /\ VersionCacheQuiet /\ UpdateCheckQuiet /\ NormalizeQuiet
    /\ JournalQuiet /\ StatusQuiet /\ DiscoveryQuiet /\ DependentsQuiet /\ PortainerQuiet
    /\ AutoScanInit
    /\ ValidateQuiet
    /\ EligibleQuiet

SpecAutoScan == InitAutoScan /\ [][NextAutoScan]_vars


NextValidate ==
    /\ \/ \E accepted \in BOOLEAN : QueueScanName(accepted)
       \/ ScannerLoopTakes
       \/ \E healthy \in BOOLEAN : ScanImageHealth(healthy)
       \/ ScanImageValidate
       \/ \E hit \in BOOLEAN : ScanImageDigest(hit)
       \/ \E ok \in BOOLEAN : ScanImageExec(ok)
    /\ UNCHANGED << coreVars, invVars, histVars, akVars, verVars, selVars, vcVars, ucVars,
                    nrVars, jrVars, stVars, dcVars, dpVars, ptVars, asVars, elVars >>

InitValidate ==
    CoreQuiet /\ InventoryQuiet /\ HistoryQuiet /\ ApiKeysQuiet /\ VersionQuiet
    /\ SelectQuiet /\ VersionCacheQuiet /\ UpdateCheckQuiet /\ NormalizeQuiet
    /\ JournalQuiet /\ StatusQuiet /\ DiscoveryQuiet /\ DependentsQuiet /\ PortainerQuiet
    /\ AutoScanQuiet /\ ValidateInit
    /\ EligibleQuiet

SpecValidate == InitValidate /\ [][NextValidate]_vars


NextEligible ==
    /\ \/ GetAllDataForAutoUpdate
       \/ EligibleContainer
       \/ EligibleReturn
    /\ UNCHANGED << coreVars, invVars, histVars, akVars, verVars, selVars, vcVars, ucVars,
                    nrVars, jrVars, stVars, dcVars, dpVars, ptVars, asVars, vlVars >>

InitEligible ==
    CoreQuiet /\ InventoryQuiet /\ HistoryQuiet /\ ApiKeysQuiet /\ VersionQuiet
    /\ SelectQuiet /\ VersionCacheQuiet /\ UpdateCheckQuiet /\ NormalizeQuiet
    /\ JournalQuiet /\ StatusQuiet /\ DiscoveryQuiet /\ DependentsQuiet /\ PortainerQuiet
    /\ AutoScanQuiet /\ ValidateQuiet /\ EligibleInit

SpecEligible == InitEligible /\ [][NextEligible]_vars

(***************************************************************************)
(* C1: when the enabled worker processes call start() concurrently on the  *)
(* same lock file, at every moment at most one of them is scheduler owner, *)
(* only the holder of the exclusive lock has loop threads, and once every  *)
(* start() has returned exactly one enabled process is owner, holds the    *)
(* lock and has started both loops, while every other process sees itself  *)
(* as a loser, has closed its handle and has started no loop.              *)
(***************************************************************************)
Owners == {p \in Procs : is_scheduler_owner[p]}

C2_AtMostOneProcessRefreshing ==
    Cardinality({p \in Procs : Iterating(p)}) <= 1

(***************************************************************************)
(* C3: a cache mutation is an atomic read-modify-write of the cache file,  *)
(* so no update is lost: when no operation is in progress, every key whose *)
(* last set() has returned (and was not deleted, cleared or expired since) *)
(* is in the file with the entry that set() stored.                        *)
(***************************************************************************)
C3_NoLostUpdate ==
    CacheIdle =>
        \A k \in Keys :
            (committed[k] # NoEntry /\ Fresh(committed[k], now))
                => cacheFile[k] = committed[k]

(***************************************************************************)
(* C4: a reader never observes a truncated or partially written cache      *)
(* file: a get() of a key that was set earlier and has not expired,        *)
(* running while another process executes set() of a different key, never  *)
(* returns (None, false).                                                  *)
(***************************************************************************)
C4_ReaderNeverSeesTruncatedFile ==
    \A p \in CacheProcs : getOutcome[p] # "fresh_miss_during_set"

(***************************************************************************)
(* C5: after set(k, v) at time t with no later set/delete/clear of k, a    *)
(* get(k) at time t2 returns (v, true) if t2 - t < Duration and            *)
(* (None, false) otherwise; a second set replaces the value and restarts   *)
(* the TTL (`committed` is the entry of the latest set).                   *)
(***************************************************************************)
C5_TtlSemantics ==
    \A p \in CacheProcs :
        getOutcome[p] \in {"none", "unchecked", "fresh_hit", "expired_miss"}

(***************************************************************************)
(* C6: queue_scan accepts an image only if it is neither queued nor being  *)
(* scanned by the worker, so the same image is never present more than     *)
(* once among the queued and the executing scans.                          *)
(***************************************************************************)
C6_ImageInFlightAtMostOnce ==
    \A image \in Images : InFlight(image) <= 1

(***************************************************************************)
(* C7: in one process at most one background scanner thread is alive at    *)
(* any time.                                                               *)
(***************************************************************************)
C7_SingleScannerThread ==
    Cardinality({w \in Callers : workerPc[w] # "none"}) <= 1

(***************************************************************************)
(* C8: once a scan of an image with resolved digest d has completed        *)
(* successfully, a later scan_image of any reference resolving to d, begun *)
(* while the entry has not expired and clear_cache() has not been called,  *)
(* finds the cached result and does not invoke the scanner.                *)
(***************************************************************************)
C8_CachedScanNotRepeated ==
    \A p \in CacheProcs :
        (/\ scanPc[p] = "exec"
         /\ scanExpect[p]
         /\ CompletedFresh(get_image_digest(scanArg[p].image)))
            => getOutcome[p] \notin {"fresh_miss", "fresh_miss_during_set"}

(***************************************************************************)
(* C9: for one container at most one update() is between acquiring and    *)
(* releasing the per-container lock, across threads and processes; whoever *)
(* executes the steps holds the lock, and a call that found the lock held  *)
(* has returned in_progress at once without performing any step.           *)
(***************************************************************************)
C9_SingleUpdatePerContainer ==
    /\ \A u1, u2 \in Updaters :
          (u1 # u2 /\ Executing(u1) /\ Executing(u2))
              => updArg[u1].name # updArg[u2].name
    /\ \A u \in Updaters :
          Executing(u) => updLock[lock_file(updArg[u].name)] = u
    /\ \A u \in Updaters :
          updRet[u] = "in_progress" => (~Executing(u) /\ ~updActed[u])

\* one updater is replacing the container while another call for the same
\* container has been answered in_progress
C9_Witness ==
    \E u1, u2 \in Updaters :
        /\ u1 # u2
        /\ updPc[u1] \in {"stop", "remove", "wait", "create", "start"}
        /\ updRet[u2] = "in_progress"
        /\ updArg[u2].name = updArg[u1].name

Returning(u) == updPc[u] = "release"

\* the reference update() works with: new_image, or the container's own
TargetRef(u) == RedeployRef(containers[updArg[u].name], updArg[u].new_image)

C12_BlockedNeverMutates ==
    \A u \in Updaters :
        updArg[u].name \in ContNames /\ update_action(updArg[u].name) \in {"skip", "pin"}
            => /\ updHist[u].steps = {}
               /\ updPc[u] \in {"idle", "labels", "release"}
               /\ Returning(u) => updRet[u] = "blocked"
               /\ containers[updArg[u].name].state = "running"

\* a forced update with a new image was answered blocked
C12_Witness ==
    \E u \in Updaters :
        /\ Returning(u)
        /\ update_action(updArg[u].name) = "pin"
        /\ updArg[u].force
        /\ updArg[u].new_image # None
        /\ updRet[u] = "blocked"

(***************************************************************************)
(* C13: at every moment of a collection pass the container list is ordered *)
(* by the order key of the hosts and, among the snapshots of one host, by  *)
(* the position the engine enumerated them in, whatever the order in which *)
(* the tasks of the hosts returned or timed out.                           *)
(***************************************************************************)
EnumPos(e) == CHOOSE k \in 1..NConts : Enumeration(e.server)[k] = e.name

C13_ListOrderedByHostThenEnumeration ==
    \A i, j \in DOMAIN all_container_data :
        i < j =>
            LET a == all_container_data[i]
                b == all_container_data[j]
            IN /\ order(a.server) <= order(b.server)
               /\ a.server = b.server =>
                     /\ ~IsPlaceholder(a) /\ ~IsPlaceholder(b)
                     /\ EnumPos(a) < EnumPos(b)

\* the pass has returned; a host with a larger order key returned its list
\* before a host with a smaller one, and another host timed out
C13_Witness ==
    /\ gadPc = "returned"
    /\ timed_out # {}
    /\ \E i, j \in DOMAIN finished :
          /\ i < j
          /\ order(finished[i]) > order(finished[j])
          /\ \A h \in {finished[i], finished[j]} :
                /\ h \notin timed_out
                /\ Len(EntriesOf(h)) = NConts

(***************************************************************************)
(* C14: when the task of a host hangs and never returns, get_all_data      *)
(* still returns; its list holds exactly one host-timeout placeholder for  *)
(* the hung host, and the entries of every host that answered are the list *)
(* its task returned.                                                      *)
(***************************************************************************)
C14_HungHostStillReturns ==
    (\E h \in Hosts : task[h] = "hung") ~>
        /\ gadPc = "returned"
        /\ \A h \in Hosts :
              IF task[h] = "hung"
                THEN EntriesOf(h) = << Placeholder(h, "host-timeout") >>
                ELSE h \notin timed_out =>
                        EntriesOf(h) = process_single_host_data(h, task[h])

(***************************************************************************)
(* C15: in the result of a pass, a host whose collection timed out or      *)
(* whose engine call raised has exactly one entry in the container list, a *)
(* placeholder, and is flagged inactive in the servers list.               *)
(***************************************************************************)
C15_FailedHostPlaceholderAndInactive ==
    gadPc = "returned" =>
        \A h \in Hosts :
            (h \in timed_out \/ (hostStatus[h] = "active" /\ task[h] = "list_error")) =>
                /\ Len(EntriesOf(h)) = 1
                /\ IsPlaceholder(EntriesOf(h)[1])
                /\ server_list_for_json[h] = "inactive"

(***************************************************************************)
(* C16: whenever a scan_image call has returned a ScanResult that the      *)
(* scanner produced, the history store holds a ScanHistoryRecord of it:    *)
(* the table scan_results has at least one row per such call.              *)
(***************************************************************************)
C16_CompletedScanIsPersisted ==
    Cardinality({ p \in CacheProcs : scanRet[p] = "scanned" }) <= Len(scan_results)

(***************************************************************************)
(* C17: after any sequence of record_fingerprint calls, concurrent ones    *)
(* included, fingerprint_history holds at most one row per (digest,        *)
(* fingerprint), and that row is the one of the pair's first insertion,    *)
(* first_seen_at included: later insertions of the pair leave it as is.    *)
(***************************************************************************)
RowsOfPair(d, f) ==
    { i \in DOMAIN fingerprint_history :
        /\ fingerprint_history[i].image_digest = d
        /\ fingerprint_history[i].fingerprint = f }

C17_OneRowPerPairFirstSeenKept ==
    \A d \in Keys, f \in Fingerprints :
        /\ Cardinality(RowsOfPair(d, f)) <= 1
        /\ firstRow[d, f] # NoRow =>
              \E i \in RowsOfPair(d, f) : fingerprint_history[i] = firstRow[d, f]
        /\ firstRow[d, f] = NoRow => RowsOfPair(d, f) = {}

\* a pair that has its row was inserted again, with a later timestamp and
\* another severity
C17_Witness ==
    \E r \in ignoredRows :
        /\ r.first_seen_at # firstRow[r.image_digest, r.fingerprint].first_seen_at
        /\ r.severity # firstRow[r.image_digest, r.fingerprint].severity
        /\ RowsOfPair(r.image_digest, r.fingerprint) # {}

(***************************************************************************)
(* C18: calculate_trend(digest) answers from the two rows of the digest    *)
(* with the newest scan timestamps: improving if the newest total is lower *)
(* than the previous one, degrading if higher, stable if equal, and        *)
(* unknown when the digest has fewer than two rows.  Stated for an answer  *)
(* whose query succeeded; E is the set of rows the claim counts.           *)
(***************************************************************************)
TrendAnswerFor(E) ==
    IF Cardinality(E) < 2
      THEN trendRet.direction = "unknown"
      ELSE \E i, j \in E :
              /\ i # j
              /\ \A k \in E \ {i} : NotAfter(scan_results, k, i)
              /\ \A k \in E \ {i, j} : NotAfter(scan_results, k, j)
              /\ trendRet.direction =
                    IF scan_results[i].total_count < scan_results[j].total_count
                      THEN "improving"
                    ELSE IF scan_results[i].total_count > scan_results[j].total_count
                      THEN "degrading"
                    ELSE "stable"

Answered == trendRet.direction # "none" /\ ~trendRet.failed

C19_ValidateFollowsTokenLife ==
    \A c \in Clients :
        valRet[c].result # "none" =>
            /\ (valRet[c].live /\ ~valRet[c].failed) => valRet[c].result = "ok"
            /\ valRet[c].result = "ok" => (valRet[c].known /\ ~valRet[c].dead)

\* one client was accepted with a key and another client, starting after
\* the key was revoked or had expired, was refused with the same key
C19_Witness ==
    \E c, e \in Clients :
        /\ valRet[c].result = "ok"
        /\ valRet[e].result = "None"
        /\ valRet[e].key = valRet[c].key
        /\ valRet[e].dead
        /\ ~valRet[e].failed

(***************************************************************************)
(* C20: on parseable tags compare is a total order: two versions compare   *)
(* equal only if they are the same version, compare(a, b) is the opposite  *)
(* of compare(b, a), the relation is transitive, and every semantic tuple  *)
(* compares strictly newer than every date-based tuple.                    *)
(***************************************************************************)
Parseable == { i \in DOMAIN verParsed : verParsed[i] # None }

Antisymmetric ==
    \A i, j \in Parseable :
        /\ verCmp[i][j] = 0 - verCmp[j][i]
        /\ verCmp[i][j] = 0 => verParsed[i] = verParsed[j]

Transitive ==
    \A i, j, k \in Parseable :
        /\ (verCmp[i][j] <= 0 /\ verCmp[j][k] <= 0) => verCmp[i][k] <= 0
        /\ (verCmp[i][j] < 0 /\ verCmp[j][k] <= 0) => verCmp[i][k] < 0
        /\ (verCmp[i][j] <= 0 /\ verCmp[j][k] < 0) => verCmp[i][k] < 0

SemanticNewerThanDate ==
    \A i, j \in Parseable :
        (~verParsed[i][1] /\ verParsed[j][1]) => verCmp[i][j] = 1

C20_CompareIsTotalOrder == Antisymmetric /\ Transitive /\ SemanticNewerThanDate

(***************************************************************************)
(* C21: a tag of the registry list is kept as a candidate exactly when it  *)
(* is strictly newer than the current tag, is unstable only if the current *)
(* tag is, is platform-specific only if the current tag is, has no         *)
(* compound version in its suffix and has at least as many numbers as the  *)
(* current tag.                                                            *)
(***************************************************************************)
Selected == selPc = "returned" /\ Len(selTags) > 0

IsCandidate(tag) == \E i \in DOMAIN newer_versions : newer_versions[i] = tag

C21_CandidateExactlyWhenQualified ==
    Selected =>
        \A i \in DOMAIN selTags :
            LET tag == selTags[i]
            IN IsCandidate(tag) <=>
                  /\ parse(tag) # None
                  /\ compare(parse(selCurrent), parse(tag)) = 0 - 1
                  /\ is_unstable(tag) => is_unstable(selCurrent)
                  /\ is_platform_specific(tag) => is_platform_specific(selCurrent)
                  /\ ~has_compound_version(tag.suffix)
                  /\ Len(tag.nums) >= Len(selCurrent.nums)

\* the current tag has three numbers; a newer tag with two numbers is
\* dropped and a newer tag with three numbers is kept
C21_Witness ==
    /\ Selected
    /\ Len(selCurrent.nums) = 3
    /\ \E i, j \in DOMAIN selTags :
          /\ Len(selTags[i].nums) = 2
          /\ parse(selTags[i]) # None
          /\ compare(parse(selCurrent), parse(selTags[i])) < 0
          /\ selTags[i].suffix = ""
          /\ ~IsCandidate(selTags[i])
          /\ Len(selTags[j].nums) = 3
          /\ IsCandidate(selTags[j])

(***************************************************************************)
(* C22: the returned tag is strictly newer than the current tag, it is the *)
(* first of the candidates ordered stable first, not platform-specific     *)
(* first, semantic before date-based, then by descending numbers, and no   *)
(* candidate of its stability, platform and date class compares newer      *)
(* than it.                                                                *)
(***************************************************************************)
SameClass(t1, t2) ==
    /\ is_unstable(t1) = is_unstable(t2)
    /\ is_platform_specific(t1) = is_platform_specific(t2)
    /\ parse(t1)[1] = parse(t2)[1]

C22_ReturnedTagIsNewest ==
    (Selected /\ Len(selResult) > 0) =>
        /\ compare(parse(selCurrent), parse(selResult[1])) < 0
        /\ IsCandidate(selResult[1])
        /\ \A i \in DOMAIN newer_versions :
              ~KeyLess(SortKey(newer_versions[i]), SortKey(selResult[1]))
        /\ \A i \in DOMAIN newer_versions :
              SameClass(newer_versions[i], selResult[1]) =>
                  compare(parse(selResult[1]), parse(newer_versions[i])) >= 0

(***************************************************************************)
(* C23: a call of check_for_newer_version that starts, and reads the      *)
(* cache, while a comparison of its image, positive or negative, is cached *)
(* and within the TTL asks the registry for nothing; and a call whose      *)
(* registry answer was an empty tag list has cached nothing.               *)
(***************************************************************************)
C23_CachedOutcomeSparesRegistry ==
    \A p \in Checkers :
        /\ ~(vcExpect[p] /\ vcRequested[p])
        /\ (vcRequested[p] /\ vcPc[p] = "idle" /\ vcRet[p] = "None") =>
              \A i \in Images : vcFile[i].result # "absent" => vcCompleted[i] # Never


Records(result, severities) ==
    Cardinality({ i \in 1..Len(result.vulnerabilities) :
                      result.vulnerabilities[i].severity \in severities })

Known == {"CRITICAL", "HIGH", "MEDIUM", "LOW"}

Consistent(result) ==
    /\ total(result.summary) = Len(result.vulnerabilities)
    /\ result.summary.critical = Records(result, {"CRITICAL"})
    /\ result.summary.high = Records(result, {"HIGH"})
    /\ result.summary.medium = Records(result, {"MEDIUM"})
    /\ result.summary.low = Records(result, {"LOW"})
    /\ result.summary.unknown = Len(result.vulnerabilities) - Records(result, Known)

(***************************************************************************)
(* C25: in every ScanResult that normalization produces the total equals   *)
(* the sum of the five counts and the number of Vulnerability records,     *)
(* each finding is counted in the bucket of its severity and an            *)
(* unrecognized severity in Unknown; the dict written to the cache carries *)
(* the same total, and the ScanResult read back has the same counts and    *)
(* the same number of records.                                             *)
(***************************************************************************)
C25_SummaryCountsEveryFindingOnce ==
    /\ nrPc \in {"normalized", "cached", "restored"} =>
          /\ Consistent(normalized)
          /\ Len(normalized.vulnerabilities) = Len(Flatten(trivy_response))
    /\ nrPc \in {"cached", "restored"} =>
          /\ cache_dict.summary.total = total(normalized.summary)
          /\ Len(cache_dict.vulnerabilities) = Len(normalized.vulnerabilities)
    /\ nrPc = "restored" =>
          /\ restored.summary = normalized.summary
          /\ Len(restored.vulnerabilities) = Len(normalized.vulnerabilities)
          /\ Consistent(restored)

C25_Witness ==
    /\ nrPc = "restored"
    /\ Len(restored.vulnerabilities) = MaxResults * MaxFindings
    /\ restored.summary.unknown > 0
    /\ restored.summary.high > 0


(***************************************************************************)
(* C26: whenever no append is under way, the journal holds at most         *)
(* HistoryLimit records, they are the most recently appended ones in       *)
(* append order, and so every record whose append returned is there unless *)
(* the bound displaced it; appends may come from several processes.        *)
(***************************************************************************)
C26_JournalKeepsNewestRecords ==
    (\A p \in Appenders : jrPc[p] = "idle") =>
        /\ Len(json_load(history_file)) <= HistoryLimit
        /\ json_load(history_file) = last_records(jrOrder)
        /\ \A record \in jrReturned :
              record > Len(jrOrder) - HistoryLimit =>
                  \E i \in 1..Len(json_load(history_file)) :
                      json_load(history_file)[i] = record


\* the pair the mapping of the claim gives for an observation
Mapped(o) ==
    IF o.fails = "alarm" THEN << "timeout", NoExitCode >>
    ELSE IF o.fails # "no" THEN << "error", NoExitCode >>
    ELSE IF o.status = "running"
            THEN CASE o.health = "none" -> << "running", NoExitCode >>
                   [] o.health = "healthy" -> << "healthy", NoExitCode >>
                   [] o.health = "unhealthy" -> << "unhealthy", o.exit_code >>
                   [] o.health = "starting" -> << "starting", NoExitCode >>
    ELSE IF o.status \in {"exited", "dead"} THEN << o.status, o.exit_code >>
    ELSE << o.status, NoExitCode >>

(***************************************************************************)
(* C27: get_status_with_exit_code returns for every observation the pair   *)
(* of the mapping: running by health (the exit code only with unhealthy),  *)
(* exited and dead with the exit code, paused, restarting, removing and    *)
(* created without it, (timeout, none) when the bounded wait runs out, and *)
(* (error, none) for any other exception.                                  *)
(***************************************************************************)
C27_StatusFollowsTheMapping ==
    stPc = "returned" /\ stRet[1] # "" => stRet = Mapped(observation)


(***************************************************************************)
(* C28: in the host list discovery returns, for a primary endpoint and any *)
(* set of numbered endpoints, no two hosts have the same name and no two   *)
(* have the same ordering key.                                             *)
(***************************************************************************)
C28_HostNamesAndKeysUnique ==
    dcPc = "returned" =>
        \A i, j \in 1..Len(dcHosts) :
            i # j => /\ dcHosts[i].name # dcHosts[j].name
                     /\ dcHosts[i].order # dcHosts[j].order


\* update() is about to return the "updated successfully" answer
ReportsUpdated(u) == Returning(u) /\ updRet[u] \in {"success", "success_after_error"}

(***************************************************************************)
(* C29: when update() reports success with an "updated successfully"       *)
(* message, the container of the original name is running and was created  *)
(* and started by this call from the target image after this call pulled   *)
(* it; so no failure of a step, a failed stop included, ends in such a     *)
(* report while the old container is what runs.                            *)
(***************************************************************************)
C29_SuccessMeansNewContainerRuns ==
    \A u \in Updaters :
        ReportsUpdated(u) =>
            /\ containers[updArg[u].name].state = "running"
            /\ {"pull", "create", "start"} \subseteq updHist[u].steps
            /\ containers[updArg[u].name].ref = updLocal[u].image_name
            /\ updLocal[u].stage = "none"

(***************************************************************************)
(* C30: on the engine path a call of update() stops, removes, creates or   *)
(* starts a container only after its own pull of the target image has      *)
(* succeeded; when the pull fails the call ends with the pull error,       *)
(* having performed no step, and the container still has the image it had  *)
(* when the call began.                                                    *)
(***************************************************************************)
C30_NothingBeforeSuccessfulPull ==
    \A u \in Updaters :
        /\ updHist[u].steps \cap {"stop", "remove", "create", "start"} # {} =>
              "pull" \in updHist[u].steps
        /\ updPc[u] \in {"has_updates", "old_image", "stop", "remove", "wait", "create",
                         "start", "failed", "cleanup", "restore", "restore_start"} =>
              "pull" \in updHist[u].steps
        /\ (Returning(u) /\ updRet[u] = "error_pull") =>
              /\ updHist[u].steps = {}
              /\ containers[updArg[u].name].image = updHist[u].pre

C30_Witness ==
    \E u \in Updaters :
        /\ Returning(u)
        /\ updRet[u] = "error_pull"
        /\ containers[updArg[u].name].state = "running"
        /\ updArg[u].force


C32_FailedDependentIsRestored ==
    \A d \in Dependents :
        /\ dpPc[d] # "waiting" => dpStatus = "success"
        /\ dpNew[d].state # "none" => dpNew[d].network_mode = << "container", dpTargetId >>
        /\ dpRet[d] = "False" =>
              /\ dpOrig[d] = [name |-> "own", state |-> "running"]
              /\ dpNew[d].state = "none"
              /\ d \in failed_recreates

\* the service key line that line i of the document stands under
ServiceLineOf(doc, i) ==
    IF \E j \in 1..i : doc[j].indent = 2
       THEN CHOOSE j \in 1..i : doc[j].indent = 2 /\ \A k \in (j + 1)..i : doc[k].indent > 2
       ELSE 0

\* line i is the image line of the service that declares the container
OwnImageLine(doc, i, container_name) ==
    /\ doc[i].key = "image"
    /\ doc[i].indent = 4
    /\ ServiceLineOf(doc, i) # 0
    /\ \E k \in 1..Len(doc) :
          /\ doc[k] = Line(4, "container_name", container_name)
          /\ ServiceLineOf(doc, k) = ServiceLineOf(doc, i)
    /\ \A k \in 1..Len(doc) : doc[k].indent = 0 /\ doc[k].key # "services" => k > i

(***************************************************************************)
(* C33: when an update with a new image is answered with success by the    *)
(* stack path, the document that was PUT differs from the stack's document *)
(* in exactly the image line of the service that declares the container,   *)
(* which now names the new image; when the stack path did not succeed the  *)
(* update goes on to the engine and nothing was PUT.                       *)
(***************************************************************************)
C33_RedeployedDocumentHasNewImage ==
    [][/\ (ptRet' = "success" /\ ptRet = "none" /\ ptArg.new_image # "") =>
              \E i \in 1..Len(compose) :
                  /\ OwnImageLine(compose, i, ptArg.container_name)
                  /\ ptSubmitted' = [compose EXCEPT ![i].value = ptArg.new_image]
       /\ (ptPc' = "done" /\ ptPc # "done" /\ ptRet' # "success") =>
              ptRet' = "engine" /\ ptSubmitted' = << >>]_vars

\* some scanner thread is running scan_image for the image
BeingScanned(image) ==
    \E w \in Callers : workerPc[w] = "scanning" /\ workerItem[w].image = image

\* no queue_scan call is under way and no taken item is still marked pending
Drained ==
    /\ scan_queue = << >>
    /\ \A t \in Callers : callerPc[t] = "idle" /\ workerPc[t] # "took"

(***************************************************************************)
(* C34: an image that queue_scan accepted (marked pending) is eventually   *)
(* being scanned by a scanner thread; a scanner thread that has started    *)
(* never ends, whatever scan_image does, and after a scan it waits for the *)
(* next item; and whenever the queue is drained get_pending_count() is 0.  *)
(***************************************************************************)
C34_AcceptedImagesAreScanned ==
    /\ \A image \in Images : (image \in pending_scans) ~> BeingScanned(image)
    /\ \A w \in Callers : (workerPc[w] = "scanning") ~> (workerPc[w] = "wait")
    /\ [][\A w \in Callers : workerPc[w] # "none" => workerPc'[w] # "none"]_vars
    /\ [](Drained => Cardinality(pending_scans) = 0)

C34_Witness ==
    /\ Drained
    /\ \E k \in Keys : cacheFile[k] # NoEntry
    /\ \E w \in Callers : workerPc[w] = "wait"


(***************************************************************************)
(* C35: a queue_scan of an inventory pass that begins after a scan of the  *)
(* image's digest has completed and been cached, and that answers while    *)
(* that scan is within the cache TTL, answers False: the image is not      *)
(* accepted for another scan.                                              *)
(***************************************************************************)
C35_ScannedImageNotAcceptedAgain ==
    \A p \in CacheProcs : scanPc[p] = "queued" => ~scanExpect[p]


\* the images of the snapshots that are not_scanned and not security_skip
Unscanned ==
    { snapshots[i].image : i \in { j \in DOMAIN snapshots :
                                     /\ snapshots[j].scan_status = "not_scanned"
                                     /\ ~snapshots[j].security_skip } }

(***************************************************************************)
(* C36: when queue_auto_scan has returned, every image it put on the queue *)
(* is the image of a snapshot that is not_scanned and not security_skip,   *)
(* no image was put twice, every such image that was not pending already   *)
(* was put, and the count returned is the number of images put.            *)
(***************************************************************************)
C36_AutoScanEnqueuesTheUnscanned ==
    asPc = 0 =>
        /\ \A i \in DOMAIN asPut : asPut[i] \in Unscanned
        /\ \A i, j \in DOMAIN asPut : asPut[i] = asPut[j] => i = j
        /\ \A image \in Unscanned : image \in asPending
        /\ queued = Len(asPut)


\* the name has a blocked character, or does not have the shape
\* name[:tag], or is longer than 256 characters
FailsValidation(name) ==
    \/ \E i \in DOMAIN name.head : name.head[i] \in {"$", "\n"}
    \/ len(name) > 256
    \/ len(name) = 0
    \/ ~ \E s \in {text(name)} :
           /\ s[1] = "a"
           /\ Cardinality({ i \in DOMAIN s : s[i] = ":" }) <= 1
           /\ \A i \in DOMAIN s : s[i] = ":" =>
                 /\ i < Len(s)
                 /\ \A j \in (i + 1)..Len(s) : s[j] # "/"

C38_CancelledCheckStoresNothing ==
    [][\A r \in Requests :
          (ucPc[r] = "store" /\ ucPc'[r] # "store" /\ ucHist[r].seen) =>
              updateCache'[ucIdx[r]] = updateCache[ucIdx[r]]]_vars


\* the loop thread whose state is `before` takes a step to `after` that the
\* claim allows: an iteration, failed or not, is followed by the wait for
\* the interval, the wait by the next iteration unless the stop event is
\* set, and the thread ends only when the stop event is set
LoopGoesOn(before, after, stopped) ==
    /\ before \in {"iter", "caught"} => after \in {before, "caught", "wait"}
    /\ before = "caught" => after \in {"caught", "wait"}
    /\ (before = "wait" /\ after # before) => after = IF stopped THEN "exited" ELSE "iter"
    /\ (after = "exited" /\ before # "exited") => stopped

(***************************************************************************)
(* C39: an error raised in an iteration of the refresh loop or of the      *)
(* version loop is caught inside the loop: the thread goes on to wait for  *)
(* the interval and then runs the next iteration unless the stop event is  *)
(* set, it ends only on the stop event, and a step of one loop leaves the  *)
(* other loop's thread where it is.                                        *)
(***************************************************************************)
C39_LoopsSurviveErrors ==
    [][\A p \in Procs :
          /\ LoopGoesOn(refresh_thread[p], refresh_thread'[p], stop_event[p])
          /\ LoopGoesOn(version_thread[p], version_thread'[p], stop_event[p])
          /\ (refresh_thread[p] \in {"iter", "caught"} /\ refresh_thread'[p] # refresh_thread[p])
                => version_thread'[p] = version_thread[p]
          /\ (version_thread[p] \in {"iter", "caught"} /\ version_thread'[p] # version_thread[p])
                => refresh_thread'[p] = refresh_thread[p]]_vars

C39_Witness ==
    \E p \in Procs :
        /\ refresh_thread[p] = "caught"
        /\ version_thread[p] = "iter"
        /\ ~stop_event[p]


\* the container carries dockpeek.update.auto=true, its update action is
\* neither skip nor pin, it is running and a newer version is cached
MeetsAllFour(c) ==
    /\ c.auto = "true"
    /\ c.action \notin {"skip", "pin", "Pin"}
    /\ c.status = "running"
    /\ c.newer

(***************************************************************************)
(* C40: when get_eligible_containers has returned, the containers in its   *)
(* result are exactly the containers of the inventory that carry the       *)
(* opt-in label, are not labelled skip or pin, are running and have a      *)
(* newer version cached.                                                   *)
(***************************************************************************)
C40_EligibleSetIsExact ==
    (elPc = 0 /\ elData # << >>) =>
        { eligible[i] : i \in DOMAIN eligible }
            = { i \in DOMAIN elContainers : MeetsAllFour(elContainers[i]) }

====
